---- MODULE Spec2Model ----
(***************************************************************************)
(* agentic-engine: the scaffolding CLI (src/src/index.js), its template    *)
(* catalog (src/unnamed/part_000) and the structure validator the catalog  *)
(* emits (both variants, embedded in getValidationScriptTemplate).         *)
(*                                                                         *)
(* A path is a sequence of path segments relative to the target directory  *)
(* (<<>> is the target directory itself).  The text of a document is the   *)
(* record [tmpl, holes]: the template literal it was rendered from and the *)
(* strings its ${...} interpolations evaluated to, which together fix the  *)
(* bytes of the document; what the programs read out of a text (its links, *)
(* its line count, the names it mentions) is computed from that record.    *)
(***************************************************************************)
EXTENDS Integers, Sequences, FiniteSets, TLC

VARIABLES
    pc,           \* position of the scaffolder process in main()
    idx,          \* prompts answered / loop index / index of the next write
    project,      \* the results object p.group() is filling
    dirs,         \* directories that exist under (and including) the target
    files,        \* files that exist under the target: path -> text
    mtime,        \* last-modification time of each file (days)
    now,          \* the clock (days)
    ticks,        \* how often the clock has been advanced
    edits,        \* changes the user has made to the target by hand
    out,          \* what the scaffolder process has printed
    exit,         \* <<>> while it runs, <<code>> once the process has ended
    runs,         \* scaffolder processes started so far
    touched,      \* paths the current run has created or written
    log,          \* the calls the current run has made, in order
    startedEmpty, \* the current run found the target absent or empty
    snap,         \* the result of the completed run that started empty
    v             \* the last validator run: variant, errors, warnings, exit

vars == <<pc, idx, project, dirs, files, mtime, now, ticks, edits, out, exit,
          runs, touched, log, startedEmpty, snap, v>>

\* How many times the tool is run against the same target.
MaxRuns == 2

\* How many times the clock is advanced after a run.
MaxTicks == 2

\* How many changes the user makes by hand to a scaffolded project.
MaxEdits == 2

\* The longest agent guide the user writes, in lines.
MaxLines == 151

(***************************************************************************)
(* Paths                                                                   *)
(***************************************************************************)
Root == <<>>

Parent(p) == SubSeq(p, 1, Len(p) - 1)

\* mkdirSync(..., { recursive: true }) creates the path and every ancestor.
Prefixes(p) == { SubSeq(p, 1, n) : n \in 0..Len(p) }

IsUnder(p, d) == Len(p) >= Len(d) /\ SubSeq(p, 1, Len(d)) = d

\* path.join / path.normalize on the segments of a joined path: "." and
\* empty segments vanish, ".." removes the segment before it.
RECURSIVE Normalize(_, _)
Normalize(segs, acc) ==
    IF segs = <<>> THEN acc
    ELSE IF Head(segs) \in {".", ""} THEN Normalize(Tail(segs), acc)
    ELSE IF Head(segs) = ".."
         THEN Normalize(Tail(segs),
                        IF acc = <<>> THEN acc ELSE SubSeq(acc, 1, Len(acc) - 1))
    ELSE Normalize(Tail(segs), Append(acc, Head(segs)))

join(base, rel) == Normalize(base \o rel, <<>>)

\* A joined path that ends in "/" names a directory or nothing.
TrailingSlash(rel) == rel # <<>> /\ rel[Len(rel)] = ""

existsSync(p) == p \in dirs \/ p \in DOMAIN files

existsSyncLink(base, rel) ==
    IF TrailingSlash(rel) THEN join(base, rel) \in dirs
    ELSE existsSync(join(base, rel))

(***************************************************************************)
(* Template catalog                                                        *)
(***************************************************************************)
Text(t, h) == [tmpl |-> t, holes |-> h]

FrontendLine == "- **Frontend:** See [FRONTEND.md](./FRONTEND.md)\n"

\* Mutant: the Frontend line is rendered for every project type.
getAgentsTemplateAlwaysFrontend(projectType) ==
    Text("getAgentsTemplate", << FrontendLine >>)

getAgentsTemplate(projectType) ==
    Text("getAgentsTemplate",
         << IF projectType = "fullstack" \/ projectType = "frontend"
            THEN FrontendLine ELSE "" >>)

StackBoth == "### Frontend\n\n[To be determined - document your framework choice]\n\n### Backend\n\n[To be determined - document your framework choice]\n"
StackFrontend == "### Frontend\n\n[To be determined - document your framework choice]\n"
StackBackend == "### Backend\n\n[To be determined - document your framework choice]\n"

getArchitectureTemplate(projectType) ==
    Text("getArchitectureTemplate",
         << IF projectType = "fullstack" THEN StackBoth
            ELSE IF projectType = "frontend" THEN StackFrontend
            ELSE StackBackend >>)

getDesignTemplate == Text("getDesignTemplate", <<>>)
getFrontendTemplate == Text("getFrontendTemplate", <<>>)
getPlansTemplate == Text("getPlansTemplate", <<>>)
getProductSenseTemplate == Text("getProductSenseTemplate", <<>>)
getQualityScoreTemplate == Text("getQualityScoreTemplate", <<>>)
getReliabilityTemplate == Text("getReliabilityTemplate", <<>>)
getSecurityTemplate == Text("getSecurityTemplate", <<>>)
getDesignDocTemplate == Text("getDesignDocTemplate", <<>>)
getExecPlanTemplate == Text("getExecPlanTemplate", <<>>)
getProductSpecTemplate == Text("getProductSpecTemplate", <<>>)
getTechDebtTrackerTemplate == Text("getTechDebtTrackerTemplate", <<>>)
getCoreBeliefsTemplate == Text("getCoreBeliefsTemplate", <<>>)
getGitignoreTemplate == Text("getGitignoreTemplate", <<>>)
getBiomeConfigTemplate == Text("getBiomeConfigTemplate", <<>>)
getMarkdownLinkCheckConfig == Text("getMarkdownLinkCheckConfig", <<>>)

\* The two string literals main() writes as the index documents.
designDocsIndex == Text("designDocsIndex", <<>>)
productSpecsIndex == Text("productSpecsIndex", <<>>)

\* Two whole variants; anything but 'typescript' gets the JavaScript one.
getValidationScriptTemplate(language) ==
    IF language = "typescript"
    THEN Text("validateStructureTS", <<>>)
    ELSE Text("validateStructureJS", <<>>)

InstallThenRun == "cd scripts && npm install && npm run validate"
NodeRun == "node scripts/validate-structure.js"

\* Mutant: the workflow runs the plain variant's command for both variants.
getGithubWorkflowTemplateNodeOnly(validationLanguage) ==
    Text("getGithubWorkflowTemplate", << NodeRun >>)

getGithubWorkflowTemplate(validationLanguage) ==
    Text("getGithubWorkflowTemplate",
         << IF validationLanguage = "typescript" THEN InstallThenRun ELSE NodeRun >>)

getReadmeTemplate(projectType, validationLanguage) ==
    LET validateCommand ==
            IF validationLanguage = "typescript" THEN InstallThenRun ELSE NodeRun
    IN  Text("getReadmeTemplate",
             << IF projectType = "backend" THEN " (if applicable)" ELSE "",
                IF validationLanguage = "typescript" THEN "ts" ELSE "js",
                validateCommand,
                validateCommand >>)

\* The object main() serialises into scripts/package.json.
validationPackageJson ==
    [ name |-> "validation-scripts",
      version |-> "1.0.0",
      type |-> "module",
      scripts |-> [ validate |-> "tsx scripts/validate-structure.ts" ],
      devDependencies |-> [ tsx |-> "^4.19.2" ] ]

\* JSON.stringify(validationPackageJson, null, 2) and the reading of it back.
validationPackageJsonText == Text("validationPackageJson", <<>>)

JSONparse(text) ==
    IF text = validationPackageJsonText THEN validationPackageJson ELSE [ x \in {} |-> x ]

\* The dependency sections a manifest declares, and the packages in them.
DeclaredDependencies(manifest) ==
    UNION { DOMAIN manifest[k] :
            k \in DOMAIN manifest \cap
                  {"dependencies", "devDependencies", "peerDependencies",
                   "optionalDependencies"} }

(***************************************************************************)
(* What a program reading a text finds in it                               *)
(***************************************************************************)
\* Lines with one markdown link each, as a user adds them to the agent guide:
\* to a file that does not exist, to two external addresses (two links on
\* the line), and to a file whose name begins with the letters "http".
MissingLinkLine == "- [Notes](./NOTES.md)\n"
ExternalLinksLine == "- [Site](https://example.com/missing), [mirror](http://example.com)\n"
HttpNamedLinkLine == "- [HTTP notes](http-notes.md)\n"

UserLinkLines ==
    {MissingLinkLine, ExternalLinksLine, HttpNamedLinkLine}

\* A line with a link to a mail address.
MailtoLinkLine == "- [Team](mailto:team@example.com)\n"

\* A line of prose without a link, with its line break and, as the last line
\* of a file may be, without it.
PlainLine == "Keep changes small and reviewed.\n"
PlainLineOpen == "Keep changes small and reviewed."

\* The mark a text carries after one of its characters was replaced by
\* another one that is neither a bracket nor a line break.
OneCharReplaced == "<one character replaced>"

\* The matches of /\[([^\]]+)\]\(([^)]+)\)/g in a hole, in order (group 2,
\* split at "/").
HoleLinks(hole) ==
    CASE hole = FrontendLine -> << <<".", "FRONTEND.md">> >>
      [] hole = MissingLinkLine -> << <<".", "NOTES.md">> >>
      [] hole = ExternalLinksLine ->
            << <<"https:", "", "example.com", "missing">>,
               <<"http:", "", "example.com">> >>
      [] hole = HttpNamedLinkLine -> << <<"http-notes.md">> >>
      [] hole = MailtoLinkLine -> << <<"mailto:team@example.com">> >>
      [] OTHER -> <<>>

\* The matches in what follows the first hole of a text, in order.
RECURSIVE LinksOfHoles(_)
LinksOfHoles(holes) ==
    IF holes = <<>> THEN <<>>
    ELSE IF Len(holes) = 1 THEN HoleLinks(holes[1])
    ELSE LinksOfHoles(SubSeq(holes, 1, Len(holes) \div 2))
         \o LinksOfHoles(SubSeq(holes, Len(holes) \div 2 + 1, Len(holes)))

\* The matches of the same expression in a whole text, in order.
LinksOf(text) ==
    CASE text.tmpl = "getAgentsTemplate" ->
            << <<".", "ARCHITECTURE.md">>, <<".", "DESIGN.md">>,
               <<".", "SECURITY.md">>, <<".", "QUALITY_SCORE.md">>,
               <<".", "RELIABILITY.md">>, <<".", "PRODUCT_SENSE.md">>,
               <<".", "PLANS.md">> >>
            \o HoleLinks(text.holes[1])
            \o << <<".", "docs", "design-docs", "index.md">>,
                  <<".", "PLANS.md">>,
                  <<".", "docs", "product-specs", "index.md">>,
                  <<".", "docs", "design-docs", "core-beliefs.md">>,
                  <<".", "docs", "exec-plans", "tech-debt-tracker.md">> >>
            \o LinksOfHoles(Tail(text.holes))
      [] text.tmpl = "getDesignTemplate" -> << <<".", "SECURITY.md">> >>
      [] text.tmpl = "getPlansTemplate" ->
            << <<".", "docs", "exec-plans", "template.md">>,
               <<".", "docs", "exec-plans", "tech-debt-tracker.md">> >>
      [] text.tmpl = "getDesignDocTemplate" ->
            << <<".", "other-doc.md">>, <<"https:", "", "example.com">> >>
      [] text.tmpl = "getProductSpecTemplate" ->
            << <<".", "other-spec.md">>, <<"link">>, <<"link">> >>
      [] text.tmpl = "designDocsIndex" -> << <<".", "core-beliefs.md">> >>
      [] text.tmpl = "getReadmeTemplate" ->
            << <<"https:", "", "openai.com", "index", "harness-engineering", "">>,
               <<".", "AGENTS.md">>, <<".", "CLAUDE.md">>,
               <<".", "ARCHITECTURE.md">>, <<".", "docs", "design-docs", "">>,
               <<".", "AGENTS.md">>, <<".", "docs", "exec-plans", "">>,
               <<".", "docs", "design-docs", "">>,
               <<".", "docs", "design-docs", "core-beliefs.md">>,
               <<".", "AGENTS.md">>, <<".", "ARCHITECTURE.md">>,
               <<".", "SECURITY.md">>, <<".", "QUALITY_SCORE.md">>,
               <<".", "docs", "design-docs", "">>, <<".", "docs", "exec-plans", "">>,
               <<".", "AGENTS.md">>, <<".", "ARCHITECTURE.md">>,
               <<".", "SECURITY.md">>, <<".", "QUALITY_SCORE.md">>,
               <<"https:", "", "openai.com", "index", "harness-engineering", "">> >>
      [] text.tmpl = "" -> LinksOfHoles(text.holes)
      [] OTHER -> <<>>

\* linkPath.startsWith('http'), for the first segments that occur.
startsWithHttp(linkPath) == linkPath[1] \in {"http:", "https:", "http-notes.md"}

\* The number of "\n" in a hole.
NewlinesIn(hole) ==
    CASE hole = FrontendLine -> 1
      [] hole \in UserLinkLines -> 1
      [] hole \in {MailtoLinkLine, PlainLine} -> 1
      [] hole = StackBoth -> 7
      [] hole \in {StackFrontend, StackBackend} -> 3
      [] OTHER -> 0

RECURSIVE SumNewlines(_)
SumNewlines(holes) ==
    IF holes = <<>> THEN 0
    ELSE IF Len(holes) = 1 THEN NewlinesIn(holes[1])
    ELSE SumNewlines(SubSeq(holes, 1, Len(holes) \div 2))
         + SumNewlines(SubSeq(holes, Len(holes) \div 2 + 1, Len(holes)))

\* The number of "\n" in the literal part of each template.
LiteralNewlines(tmpl) ==
    CASE tmpl = "getAgentsTemplate" -> 102
      [] tmpl = "getArchitectureTemplate" -> 77
      [] tmpl = "getDesignTemplate" -> 67
      [] tmpl = "getFrontendTemplate" -> 77
      [] tmpl = "getPlansTemplate" -> 93
      [] tmpl = "getProductSenseTemplate" -> 75
      [] tmpl = "getQualityScoreTemplate" -> 72
      [] tmpl = "getReliabilityTemplate" -> 114
      [] tmpl = "getSecurityTemplate" -> 109
      [] tmpl = "getDesignDocTemplate" -> 120
      [] tmpl = "getExecPlanTemplate" -> 111
      [] tmpl = "getProductSpecTemplate" -> 121
      [] tmpl = "getTechDebtTrackerTemplate" -> 82
      [] tmpl = "getCoreBeliefsTemplate" -> 133
      [] tmpl = "validateStructureTS" -> 207
      [] tmpl = "validateStructureJS" -> 200
      [] tmpl = "getGithubWorkflowTemplate" -> 65
      [] tmpl = "getReadmeTemplate" -> 153
      [] tmpl = "getGitignoreTemplate" -> 35
      [] tmpl = "getBiomeConfigTemplate" -> 101
      [] tmpl = "getMarkdownLinkCheckConfig" -> 17
      [] tmpl = "designDocsIndex" -> 11
      [] tmpl = "productSpecsIndex" -> 11
      [] tmpl = "validationPackageJson" -> 10
      [] OTHER -> 0

\* content.split('\n').length
splitLength(text) == LiteralNewlines(text.tmpl) + SumNewlines(text.holes) + 1

\* Whether the text contains the file name FRONTEND.md: the README's tree
\* listing names it in its literal part, the agent guide in its hole.
MentionsFrontendMd(text) ==
    \/ text.tmpl = "getReadmeTemplate"
    \/ \E i \in DOMAIN text.holes : text.holes[i] = FrontendLine

\* Whether the text contains the "### CI/CD" section ("GitHub Actions
\* automatically validate: ..."): it is in the literal part of the README.
HasCIInstructions(text) == text.tmpl = "getReadmeTemplate"

(***************************************************************************)
(* The scaffolder: main() of src/index.js                                  *)
(***************************************************************************)
\* The five prompts of p.group(), in order, and what each can answer.
Prompts == <<"path", "projectType", "validationLanguage",
             "includeObservability", "includeCI">>

Answers(prompt) ==
    CASE prompt = "path" -> {"./my-agent-project"}
      [] prompt = "projectType" -> {"fullstack", "backend", "frontend"}
      [] prompt = "validationLanguage" -> {"typescript", "javascript"}
      [] prompt = "includeObservability" -> BOOLEAN
      [] prompt = "includeCI" -> BOOLEAN

\* Mutant: docs/generated is left out of the base directories.
directoriesNoGenerated(proj) ==
    << <<"docs", "design-docs">>,
       <<"docs", "exec-plans", "active">>,
       <<"docs", "exec-plans", "completed">>,
       <<"docs", "product-specs">>,
       <<"docs", "references">>,
       <<"scripts">> >>
    \o (IF proj.includeCI THEN << <<".github", "workflows">> >> ELSE <<>>)

\* Mutant: scripts is left out of the directories.
directoriesNoScripts(proj) ==
    << <<"docs", "design-docs">>,
       <<"docs", "exec-plans", "active">>,
       <<"docs", "exec-plans", "completed">>,
       <<"docs", "product-specs">>,
       <<"docs", "references">>,
       <<"docs", "generated">> >>
    \o (IF proj.includeCI THEN << <<".github", "workflows">> >> ELSE <<>>)

\* Mutant: the workflow directory is created whatever includeCI says.
directoriesAlwaysCI(proj) ==
    << <<"docs", "design-docs">>,
       <<"docs", "exec-plans", "active">>,
       <<"docs", "exec-plans", "completed">>,
       <<"docs", "product-specs">>,
       <<"docs", "references">>,
       <<"docs", "generated">>,
       <<"scripts">>,
       <<".github", "workflows">> >>

directories(proj) ==
    << <<"docs", "design-docs">>,
       <<"docs", "exec-plans", "active">>,
       <<"docs", "exec-plans", "completed">>,
       <<"docs", "product-specs">>,
       <<"docs", "references">>,
       <<"docs", "generated">>,
       <<"scripts">> >>
    \o (IF proj.includeCI THEN << <<".github", "workflows">> >> ELSE <<>>)

\* A writeFileSync call of main(): its path, the text it writes, and the
\* template function called in its argument list to produce the text.
W(p, t) == [path |-> p, text |-> t, call |-> t.tmpl]

\* A writeFileSync call whose text is a string literal: nothing is called.
Literal(p, t) == [path |-> p, text |-> t, call |-> ""]

scriptExt(proj) == IF proj.validationLanguage = "typescript" THEN "ts" ELSE "js"

ScriptName(ext) == IF ext = "ts" THEN "validate-structure.ts" ELSE "validate-structure.js"

\* Mutant: CLAUDE.md is rendered without the project type.
RootDocWritesClaudeUntyped(proj) ==
    << W(<<"AGENTS.md">>, getAgentsTemplate(proj.projectType)),
       W(<<"CLAUDE.md">>, getAgentsTemplate("")),
       W(<<"ARCHITECTURE.md">>, getArchitectureTemplate(proj.projectType)),
       W(<<"DESIGN.md">>, getDesignTemplate),
       W(<<"PLANS.md">>, getPlansTemplate),
       W(<<"PRODUCT_SENSE.md">>, getProductSenseTemplate),
       W(<<"QUALITY_SCORE.md">>, getQualityScoreTemplate),
       W(<<"RELIABILITY.md">>, getReliabilityTemplate),
       W(<<"SECURITY.md">>, getSecurityTemplate) >>

\* Mutant: the agent guide is rendered once and CLAUDE.md is written from
\* the string already in memory.
RootDocWritesOneRender(proj) ==
    << W(<<"AGENTS.md">>, getAgentsTemplate(proj.projectType)),
       Literal(<<"CLAUDE.md">>, getAgentsTemplate(proj.projectType)),
       W(<<"ARCHITECTURE.md">>, getArchitectureTemplate(proj.projectType)),
       W(<<"DESIGN.md">>, getDesignTemplate),
       W(<<"PLANS.md">>, getPlansTemplate),
       W(<<"PRODUCT_SENSE.md">>, getProductSenseTemplate),
       W(<<"QUALITY_SCORE.md">>, getQualityScoreTemplate),
       W(<<"RELIABILITY.md">>, getReliabilityTemplate),
       W(<<"SECURITY.md">>, getSecurityTemplate) >>

\* The writeFileSync calls of main(), in program order.
RootDocWrites(proj) ==
    << W(<<"AGENTS.md">>, getAgentsTemplate(proj.projectType)),
       W(<<"CLAUDE.md">>, getAgentsTemplate(proj.projectType)),
       W(<<"ARCHITECTURE.md">>, getArchitectureTemplate(proj.projectType)),
       W(<<"DESIGN.md">>, getDesignTemplate),
       W(<<"PLANS.md">>, getPlansTemplate),
       W(<<"PRODUCT_SENSE.md">>, getProductSenseTemplate),
       W(<<"QUALITY_SCORE.md">>, getQualityScoreTemplate),
       W(<<"RELIABILITY.md">>, getReliabilityTemplate),
       W(<<"SECURITY.md">>, getSecurityTemplate) >>

\* Mutant: FRONTEND.md is written for every project type.
FrontendWritesAlways(proj) == << W(<<"FRONTEND.md">>, getFrontendTemplate) >>

\* Mutant: FRONTEND.md is written for fullstack only.
FrontendWritesFullstackOnly(proj) ==
    IF proj.projectType = "fullstack"
    THEN << W(<<"FRONTEND.md">>, getFrontendTemplate) >>
    ELSE <<>>

FrontendWrites(proj) ==
    IF proj.projectType = "fullstack" \/ proj.projectType = "frontend"
    THEN << W(<<"FRONTEND.md">>, getFrontendTemplate) >>
    ELSE <<>>

\* Mutant: docs/references gets a document of its own.
DocsWritesWithReferencesIndex ==
    << W(<<"docs", "design-docs", "index.md">>, designDocsIndex),
       W(<<"docs", "design-docs", "core-beliefs.md">>, getCoreBeliefsTemplate),
       W(<<"docs", "design-docs", "template.md">>, getDesignDocTemplate),
       W(<<"docs", "exec-plans", "template.md">>, getExecPlanTemplate),
       W(<<"docs", "exec-plans", "tech-debt-tracker.md">>, getTechDebtTrackerTemplate),
       W(<<"docs", "product-specs", "index.md">>, productSpecsIndex),
       W(<<"docs", "product-specs", "template.md">>, getProductSpecTemplate),
       W(<<"docs", "references", "index.md">>, productSpecsIndex) >>

DocsWrites ==
    << Literal(<<"docs", "design-docs", "index.md">>, designDocsIndex),
       W(<<"docs", "design-docs", "core-beliefs.md">>, getCoreBeliefsTemplate),
       W(<<"docs", "design-docs", "template.md">>, getDesignDocTemplate),
       W(<<"docs", "exec-plans", "template.md">>, getExecPlanTemplate),
       W(<<"docs", "exec-plans", "tech-debt-tracker.md">>, getTechDebtTrackerTemplate),
       Literal(<<"docs", "product-specs", "index.md">>, productSpecsIndex),
       W(<<"docs", "product-specs", "template.md">>, getProductSpecTemplate) >>

ScriptWrites(proj) ==
    << W(<<"scripts", ScriptName(scriptExt(proj))>>,
         getValidationScriptTemplate(proj.validationLanguage)) >>

\* Mutant: the manifest is written for both script variants.
ManifestWritesAlways(proj) ==
    << W(<<"scripts", "package.json">>, validationPackageJsonText) >>

ManifestWrites(proj) ==
    IF proj.validationLanguage = "typescript"
    THEN << W(<<"scripts", "package.json">>, validationPackageJsonText) >>
    ELSE <<>>

CIWrites(proj) ==
    IF proj.includeCI
    THEN << W(<<".github", "workflows", "validate-docs.yml">>,
              getGithubWorkflowTemplate(proj.validationLanguage)),
            W(<<".github", "markdown-link-check-config.json">>,
              getMarkdownLinkCheckConfig) >>
    ELSE <<>>

\* Mutant: a run with includeObservability writes an observability document.
TailWritesWithObservability(proj) ==
    << W(<<".gitignore">>, getGitignoreTemplate),
       W(<<"biome.json">>, getBiomeConfigTemplate),
       W(<<"README.md">>, getReadmeTemplate(proj.projectType, proj.validationLanguage)) >>
    \o (IF proj.includeObservability
        THEN << W(<<"docs", "references", "observability.md">>, getReliabilityTemplate) >>
        ELSE <<>>)

TailWrites(proj) ==
    << W(<<".gitignore">>, getGitignoreTemplate),
       W(<<"biome.json">>, getBiomeConfigTemplate),
       W(<<"README.md">>, getReadmeTemplate(proj.projectType, proj.validationLanguage)) >>

writes(proj) ==
    RootDocWrites(proj) \o FrontendWrites(proj) \o DocsWrites \o ScriptWrites(proj)
    \o ManifestWrites(proj) \o CIWrites(proj) \o TailWrites(proj)

Ended == pc \in {"done", "failed", "cancelled"}

NoValidation ==
    [via |-> "", ran |-> "", rootDir |-> Root,
     errors |-> <<>>, warnings |-> <<>>, out |-> <<>>, exit |-> <<>>]

NoSnap == [cfg |-> <<>>, dirs |-> {}, files |-> <<>>, run |-> 0]

TargetEmpty == files = <<>> /\ dirs \subseteq {Root}

\* The target before the tool ever ran: absent, an empty directory, or a
\* plain file of that name.
Init ==
    /\ pc = "idle" /\ idx = 0 /\ project = <<>>
    /\ \E target \in {"absent", "directory", "file"} :
          /\ dirs = IF target = "directory" THEN {Root} ELSE {}
          /\ files = IF target = "file"
                     THEN [p \in {Root} |-> Text("user", <<>>)] ELSE <<>>
    /\ mtime = [p \in DOMAIN files |-> 0]
    /\ now = 0 /\ ticks = 0 /\ edits = 0
    /\ out = <<>> /\ exit = <<>> /\ runs = 0
    /\ touched = {} /\ log = <<>> /\ startedEmpty = FALSE
    /\ snap = NoSnap
    /\ v = NoValidation

\* node src/index.js: a new process; console.clear(), p.intro().
Launch ==
    /\ pc' = "prompt" /\ idx' = 0 /\ project' = <<>>
    /\ out' = <<>> /\ exit' = <<>> /\ runs' = runs + 1
    /\ touched' = {} /\ log' = <<>> /\ startedEmpty' = TargetEmpty
    /\ v' = NoValidation
    /\ UNCHANGED <<edits, ticks, dirs, files, mtime, now, snap>>

\* The tool is run for the first time.
Start == pc = "idle" /\ Launch

\* The tool is run again on the same target after an earlier run has ended.
Relaunch == Ended /\ runs < MaxRuns /\ Launch

\* Mutant: the target directory is created as soon as a prompt is answered.
AnswerMakesRoot ==
    /\ pc = "prompt"
    /\ \E a \in Answers(Prompts[idx + 1]) :
          project' = [k \in DOMAIN project \cup {Prompts[idx + 1]} |->
                         IF k = Prompts[idx + 1] THEN a ELSE project[k]]
    /\ IF idx + 1 = Len(Prompts)
       THEN pc' = "root" /\ idx' = 0
       ELSE pc' = "prompt" /\ idx' = idx + 1
    /\ dirs' = IF Root \in DOMAIN files THEN dirs ELSE dirs \cup {Root}
    /\ UNCHANGED <<log, edits, ticks, files, mtime, now, out, exit, runs, touched,
                   startedEmpty, snap, v>>

\* The user answers the next prompt; after the fifth, p.group() resolves and
\* the spinner starts.
Answer ==
    /\ pc = "prompt"
    /\ \E a \in Answers(Prompts[idx + 1]) :
          project' = [k \in DOMAIN project \cup {Prompts[idx + 1]} |->
                         IF k = Prompts[idx + 1] THEN a ELSE project[k]]
    /\ IF idx + 1 = Len(Prompts)
       THEN pc' = "root" /\ idx' = 0
       ELSE pc' = "prompt" /\ idx' = idx + 1
    /\ UNCHANGED <<log, edits, ticks, dirs, files, mtime, now, out, exit, runs, touched,
                   startedEmpty, snap, v>>

\* Mutant: onCancel exits with code 1.
onCancelExitOne ==
    /\ pc = "prompt"
    /\ pc' = "cancelled"
    /\ out' = Append(out, "Operation cancelled.")
    /\ exit' = <<1>>
    /\ UNCHANGED <<log, edits, ticks, idx, project, dirs, files, mtime, now, runs, touched,
                   startedEmpty, snap, v>>

\* The user cancels a prompt: onCancel prints and exits.
onCancel ==
    /\ pc = "prompt"
    /\ pc' = "cancelled"
    /\ out' = Append(out, "Operation cancelled.")
    /\ exit' = <<0>>
    /\ UNCHANGED <<log, edits, ticks, idx, project, dirs, files, mtime, now, runs, touched,
                   startedEmpty, snap, v>>

\* An entry of the log: the call, the path it was given (for a template
\* function, its name), and how it ended.
Event(op, arg, why) == [op |-> op, arg |-> arg, why |-> why]

\* The evaluation of the arguments of a writeFileSync call: the call of the
\* template function, when there is one.
Rendering(w) == IF w.call = "" THEN <<>> ELSE << Event("render", <<w.call>>, "ok") >>

\* Mutant: mkdirSync without tolerance of a directory that is already there.
CanMkdirNew(p) == p \notin dirs /\ \A q \in Prefixes(p) : q \notin DOMAIN files

\* mkdirSync(p, { recursive: true }) can succeed when no component of p is a
\* file; it then leaves p and its ancestors directories.
CanMkdir(p) == \A q \in Prefixes(p) : q \notin DOMAIN files

\* Mutant: the target directory is emptied before the emission.
MkRootCleans ==
    /\ pc = "root"
    /\ dirs' = {Root}
    /\ files' = <<>>
    /\ mtime' = <<>>
    /\ touched' = touched \cup {Root}
    /\ log' = Append(log, Event("mkdirSync", Root, "ok"))
    /\ pc' = "dirs" /\ idx' = 1
    /\ UNCHANGED <<edits, ticks, project, now, out, exit, runs, startedEmpty, snap, v>>

\* if (!existsSync(projectPath)) mkdirSync(projectPath, { recursive: true })
MkRoot ==
    /\ pc = "root"
    /\ IF existsSync(Root)
       THEN UNCHANGED <<log, edits, ticks, dirs, touched>>
       ELSE /\ CanMkdir(Root)
            /\ dirs' = dirs \cup {Root}
            /\ touched' = touched \cup {Root}
            /\ log' = Append(log, Event("mkdirSync", Root, "ok"))
    /\ pc' = "dirs" /\ idx' = 1
    /\ UNCHANGED <<edits, ticks, project, files, mtime, now, out, exit, runs, startedEmpty,
                   snap, v>>

\* One iteration of the loop over directories.
MkDir ==
    /\ pc = "dirs"
    /\ LET d == directories(project)[idx] IN
          /\ CanMkdir(d)
          /\ dirs' = dirs \cup Prefixes(d)
          /\ touched' = touched \cup (Prefixes(d) \ dirs)
          /\ log' = Append(log, Event("mkdirSync", d, "ok"))
    /\ IF idx = Len(directories(project))
       THEN pc' = "write" /\ idx' = 1
       ELSE pc' = "dirs" /\ idx' = idx + 1
    /\ UNCHANGED <<edits, ticks, project, files, mtime, now, out, exit, runs, startedEmpty,
                   snap, v>>

\* Mutant: the text is appended to what the file already holds.
appendFileSync(fs, path, text) ==
    [p \in DOMAIN fs \cup {path} |->
        IF p # path THEN fs[p]
        ELSE IF path \in DOMAIN fs
             THEN Text(fs[path].tmpl, fs[path].holes \o <<text.tmpl>> \o text.holes)
             ELSE text]

\* writeFileSync(path, text): the file holds exactly the text afterwards.
writeFileSync(fs, path, text) ==
    [p \in DOMAIN fs \cup {path} |-> IF p = path THEN text ELSE fs[p]]

\* writeFileSync(path, text) can succeed when the parent is a directory and
\* the path is not one; it creates or overwrites the file.
CanWrite(p) == Parent(p) \in dirs /\ p \notin dirs /\ p # Root

\* The next writeFileSync call of main().
WriteFile ==
    /\ pc = "write"
    /\ LET w == writes(project)[idx] IN
          /\ CanWrite(w.path)
          /\ files' = writeFileSync(files, w.path, w.text)
          /\ mtime' = [p \in DOMAIN files \cup {w.path} |->
                          IF p = w.path THEN now ELSE mtime[p]]
          /\ touched' = touched \cup {w.path}
          /\ log' = log \o Rendering(w) \o << Event("writeFileSync", w.path, "ok") >>
    /\ IF idx = Len(writes(project))
       THEN pc' = "finish" /\ idx' = 0
       ELSE pc' = "write" /\ idx' = idx + 1
    /\ UNCHANGED <<edits, ticks, project, dirs, now, out, exit, runs, startedEmpty, snap, v>>

\* s.stop(), p.note(), p.outro(); main() resolves and the process ends with
\* the default exit code.
Finish ==
    /\ pc = "finish"
    /\ pc' = "done"
    /\ out' = Append(out, "Project created successfully!")
    /\ exit' = <<0>>
    /\ snap' = IF startedEmpty
               THEN [cfg |-> project, dirs |-> dirs, files |-> files, run |-> runs]
               ELSE snap
    /\ UNCHANGED <<log, edits, ticks, idx, project, dirs, files, mtime, now, runs, touched,
                   startedEmpty, v>>

\* Mutant: the failure is printed and the run goes on to its last step.
RejectedGoesOn ==
    /\ pc' = "finish" /\ idx' = 0
    /\ out' = Append(out, "console.error")
    /\ UNCHANGED <<edits, ticks, exit, project, dirs, files, mtime, now, runs, touched,
                   startedEmpty, snap, v>>

\* main() rejects at the pending call: main().catch(console.error) prints
\* the error and nothing sets an exit code, so the process ends with 0.
Rejected ==
    /\ pc' = "failed"
    /\ out' = Append(out, "console.error")
    /\ exit' = <<0>>
    /\ UNCHANGED <<edits, ticks, idx, project, dirs, files, mtime, now, runs, touched,
                   startedEmpty, snap, v>>

\* What the pending call adds to the log when it throws: for a write, the
\* arguments are evaluated before writeFileSync is entered.
Throwing(why) ==
    IF pc = "root" THEN << Event("mkdirSync", Root, why) >>
    ELSE IF pc = "dirs" THEN << Event("mkdirSync", directories(project)[idx], why) >>
    ELSE Rendering(writes(project)[idx])
         \o << Event("writeFileSync", writes(project)[idx].path, why) >>

\* The pending mkdirSync or writeFileSync throws because the path cannot be
\* created: a component of it is a file, or the parent directory is missing.
ThrowCannot ==
    /\ \/ pc = "dirs" /\ ~CanMkdir(directories(project)[idx])
       \/ pc = "write" /\ ~CanWrite(writes(project)[idx].path)
    /\ log' = log \o Throwing("cannot")
    /\ Rejected

\* The pending mkdirSync or writeFileSync throws because the system refuses
\* it (permissions, disk full).
ThrowRefused ==
    /\ \/ pc = "root" /\ ~existsSync(Root)
       \/ pc \in {"dirs", "write"}
    /\ log' = log \o Throwing("refused")
    /\ Rejected

(***************************************************************************)
(* What the emitted validator reads from the file system                   *)
(***************************************************************************)
\* An entry of this.errors or this.warnings: the message, the path or name
\* interpolated into it, and the number interpolated into it.
Finding(msg, path, n) == [msg |-> msg, path |-> path, n |-> n]

readFileSync(p) == IF p \in DOMAIN files THEN files[p] ELSE Text("", <<>>)

statSyncMtime(p) == IF p \in DOMAIN mtime THEN mtime[p] ELSE now

\* The names an entry of docs/design-docs can have, in listing order.
EntryNames == <<"core-beliefs.md", "index.md", "template.md">>

readdirSync(d) == SelectSeq(EntryNames, LAMBDA name : existsSync(Append(d, name)))

\* f.endsWith('.md'), for the names that occur.
endsWithMd(f) == f \in {"core-beliefs.md", "index.md", "template.md"}

\* 6 * 30 * 24 * 60 * 60 * 1000 ms; the clock of the model counts days, so
\* that is 6 * 30.
sixMonths == 6 * 30

\* The reads that throw instead of yielding a finding: AGENTS.md or CLAUDE.md
\* being a directory, docs/design-docs being a file.
ValidatorCompletes(rootDir) ==
    /\ join(rootDir, <<"AGENTS.md">>) \notin dirs
    /\ join(rootDir, <<"CLAUDE.md">>) \notin dirs
    /\ join(rootDir, <<"docs", "design-docs">>) \notin DOMAIN files

(***************************************************************************)
(* What the emitted validator prints (the same in both variants)           *)
(***************************************************************************)
\* A console.log call: which of the calls of the script it is, and what is
\* interpolated into its text (a finding, or a count in the place of n).
Printed(kind, f) == [kind |-> kind, f |-> f]

Count(n) == Finding("", <<>>, n)

\* console.log('\n' + '='.repeat(60)), with or without a closing '\n'.
Rule == Printed("rule", Count(60))

\* Mutant: the banner is printed whenever there is no error, after the
\* groups.
printResultsBannerUnlessErrors(errors, warnings) ==
    << Rule >>
    \o (IF Len(errors) > 0
        THEN << Printed("Errors (${n}):", Count(Len(errors))) >>
             \o [i \in 1..Len(errors) |-> Printed("  - ${error}", errors[i])]
        ELSE <<>>)
    \o (IF Len(warnings) > 0
        THEN << Printed("Warnings (${n}):", Count(Len(warnings))) >>
             \o [i \in 1..Len(warnings) |-> Printed("  - ${warning}", warnings[i])]
        ELSE <<>>)
    \o (IF Len(errors) = 0
        THEN << Printed("All validation checks passed!", Count(0)) >>
        ELSE <<>>)
    \o << Rule >>

printResults(errors, warnings) ==
    << Rule >>
    \o (IF Len(errors) = 0 /\ Len(warnings) = 0
        THEN << Printed("All validation checks passed!", Count(0)) >>
        ELSE (IF Len(errors) > 0
              THEN << Printed("Errors (${n}):", Count(Len(errors))) >>
                   \o [i \in 1..Len(errors) |-> Printed("  - ${error}", errors[i])]
              ELSE <<>>)
             \o (IF Len(warnings) > 0
                 THEN << Printed("Warnings (${n}):", Count(Len(warnings))) >>
                      \o [i \in 1..Len(warnings) |-> Printed("  - ${warning}", warnings[i])]
                 ELSE <<>>))
    \o << Rule >>

\* What validate() prints: its opening line, then printResults().
consoleLog(errors, warnings) ==
    << Printed("Validating project structure...", Count(0)) >>
    \o printResults(errors, warnings)

(***************************************************************************)
(* The emitted validator, TypeScript variant (class StructureValidator)  *)
(***************************************************************************)
validateRootDocsTS(rootDir) ==
    LET requiredDocs == <<"AGENTS.md", "CLAUDE.md", "ARCHITECTURE.md", "DESIGN.md",
                          "PLANS.md", "PRODUCT_SENSE.md", "QUALITY_SCORE.md",
                          "RELIABILITY.md", "SECURITY.md">>
        missing == SelectSeq(requiredDocs,
                             LAMBDA doc : ~existsSync(join(rootDir, <<doc>>)))
        agents == join(rootDir, <<"AGENTS.md">>)
        claude == join(rootDir, <<"CLAUDE.md">>)
        lineCount == splitLength(readFileSync(agents))
    IN  [ errors |->
            [i \in 1..Len(missing) |->
                Finding("Missing required document: ", <<missing[i]>>, 0)]
            \o (IF existsSync(agents) /\ existsSync(claude)
                   /\ readFileSync(agents) # readFileSync(claude)
                THEN << Finding("AGENTS.md and CLAUDE.md must be identical", <<>>, 0) >>
                ELSE <<>>),
          warnings |->
            IF existsSync(agents) /\ lineCount > 150
            THEN << Finding("AGENTS.md is ${lineCount} lines (recommended: ~100 lines). Consider moving details to docs/",
                            <<>>, lineCount) >>
            ELSE <<>> ]

\* Mutant: a missing index file is an error like a missing directory.
validateDocsStructureTSIndexErrors(rootDir) ==
    LET requiredDirs == << <<"docs", "design-docs">>,
                           <<"docs", "exec-plans", "active">>,
                           <<"docs", "exec-plans", "completed">>,
                           <<"docs", "product-specs">>,
                           <<"docs", "references">>,
                           <<"docs", "generated">> >>
        requiredIndexes == << <<"docs", "design-docs", "index.md">>,
                              <<"docs", "product-specs", "index.md">> >>
        missingDirs == SelectSeq(requiredDirs,
                                 LAMBDA dir : ~existsSync(join(rootDir, dir)))
        missingIndexes == SelectSeq(requiredIndexes,
                                    LAMBDA index : ~existsSync(join(rootDir, index)))
    IN  [ errors |->
            [i \in 1..Len(missingDirs) |->
                Finding("Missing required directory: ", missingDirs[i], 0)]
            \o [i \in 1..Len(missingIndexes) |->
                Finding("Missing index file: ", missingIndexes[i], 0)],
          warnings |-> <<>> ]

validateDocsStructureTS(rootDir) ==
    LET requiredDirs == << <<"docs", "design-docs">>,
                           <<"docs", "exec-plans", "active">>,
                           <<"docs", "exec-plans", "completed">>,
                           <<"docs", "product-specs">>,
                           <<"docs", "references">>,
                           <<"docs", "generated">> >>
        requiredIndexes == << <<"docs", "design-docs", "index.md">>,
                              <<"docs", "product-specs", "index.md">> >>
        missingDirs == SelectSeq(requiredDirs,
                                 LAMBDA dir : ~existsSync(join(rootDir, dir)))
        missingIndexes == SelectSeq(requiredIndexes,
                                    LAMBDA index : ~existsSync(join(rootDir, index)))
    IN  [ errors |->
            [i \in 1..Len(missingDirs) |->
                Finding("Missing required directory: ", missingDirs[i], 0)],
          warnings |->
            [i \in 1..Len(missingIndexes) |->
                Finding("Missing index file: ", missingIndexes[i], 0)] ]

validateCrossLinksTS(rootDir) ==
    LET agentsPath == join(rootDir, <<"AGENTS.md">>)
        broken == SelectSeq(LinksOf(readFileSync(agentsPath)),
                            LAMBDA linkPath :
                                /\ ~startsWithHttp(linkPath)
                                /\ ~existsSyncLink(rootDir, linkPath))
    IN  IF ~existsSync(agentsPath) THEN <<>>
        ELSE [i \in 1..Len(broken) |->
                 Finding("Broken link in AGENTS.md: ", broken[i], 0)]

validateDocFreshnessTS(rootDir) ==
    LET designDocsDir == join(rootDir, <<"docs", "design-docs">>)
        docs == SelectSeq(readdirSync(designDocsDir), endsWithMd)
        checked == SelectSeq(docs, LAMBDA file : file # "index.md" /\ file # "template.md")
        stale == SelectSeq(checked,
                           LAMBDA file :
                               now - statSyncMtime(Append(designDocsDir, file)) > sixMonths)
    IN  IF ~existsSync(designDocsDir) THEN <<>>
        ELSE IF Len(docs) = 0
        THEN << Finding("No design documents found in docs/design-docs/", <<>>, 0) >>
        ELSE [i \in 1..Len(stale) |->
                 Finding("Design doc hasn't been updated in 6+ months: ", <<stale[i]>>, 0)]

\* Mutant: the run fails when there is any finding, warnings included.
validateTSFailsOnWarnings(rootDir) ==
    LET a == validateRootDocsTS(rootDir)
        b == validateDocsStructureTS(rootDir)
        c == validateCrossLinksTS(rootDir)
        d == validateDocFreshnessTS(rootDir)
        errors == a.errors \o b.errors
        warnings == a.warnings \o b.warnings \o c \o d
    IN  [ errors |-> errors,
          warnings |-> warnings,
          out |-> consoleLog(errors, warnings),
          exit |-> << IF Len(errors) = 0 /\ Len(warnings) = 0 THEN 0 ELSE 1 >> ]

validateTS(rootDir) ==
    LET a == validateRootDocsTS(rootDir)
        b == validateDocsStructureTS(rootDir)
        c == validateCrossLinksTS(rootDir)
        d == validateDocFreshnessTS(rootDir)
        errors == a.errors \o b.errors
    IN  [ errors |-> errors,
          warnings |-> a.warnings \o b.warnings \o c \o d,
          out |-> consoleLog(errors, a.warnings \o b.warnings \o c \o d),
          exit |-> << IF Len(errors) = 0 THEN 0 ELSE 1 >> ]

(***************************************************************************)
(* The emitted validator, JavaScript variant (class StructureValidator)  *)
(***************************************************************************)
validateRootDocsJS(rootDir) ==
    LET requiredDocs == <<"AGENTS.md", "CLAUDE.md", "ARCHITECTURE.md", "DESIGN.md",
                          "PLANS.md", "PRODUCT_SENSE.md", "QUALITY_SCORE.md",
                          "RELIABILITY.md", "SECURITY.md">>
        missing == SelectSeq(requiredDocs,
                             LAMBDA doc : ~existsSync(join(rootDir, <<doc>>)))
        agents == join(rootDir, <<"AGENTS.md">>)
        claude == join(rootDir, <<"CLAUDE.md">>)
        lineCount == splitLength(readFileSync(agents))
    IN  [ errors |->
            [i \in 1..Len(missing) |->
                Finding("Missing required document: ", <<missing[i]>>, 0)]
            \o (IF existsSync(agents) /\ existsSync(claude)
                   /\ readFileSync(agents) # readFileSync(claude)
                THEN << Finding("AGENTS.md and CLAUDE.md must be identical", <<>>, 0) >>
                ELSE <<>>),
          warnings |->
            IF existsSync(agents) /\ lineCount > 150
            THEN << Finding("AGENTS.md is ${lineCount} lines (recommended: ~100 lines). Consider moving details to docs/",
                            <<>>, lineCount) >>
            ELSE <<>> ]

validateDocsStructureJS(rootDir) ==
    LET requiredDirs == << <<"docs", "design-docs">>,
                           <<"docs", "exec-plans", "active">>,
                           <<"docs", "exec-plans", "completed">>,
                           <<"docs", "product-specs">>,
                           <<"docs", "references">>,
                           <<"docs", "generated">> >>
        requiredIndexes == << <<"docs", "design-docs", "index.md">>,
                              <<"docs", "product-specs", "index.md">> >>
        missingDirs == SelectSeq(requiredDirs,
                                 LAMBDA dir : ~existsSync(join(rootDir, dir)))
        missingIndexes == SelectSeq(requiredIndexes,
                                    LAMBDA index : ~existsSync(join(rootDir, index)))
    IN  [ errors |->
            [i \in 1..Len(missingDirs) |->
                Finding("Missing required directory: ", missingDirs[i], 0)],
          warnings |->
            [i \in 1..Len(missingIndexes) |->
                Finding("Missing index file: ", missingIndexes[i], 0)] ]

\* Mutant: external links are existence-checked like the others.
validateCrossLinksJSChecksAll(rootDir) ==
    LET agentsPath == join(rootDir, <<"AGENTS.md">>)
        broken == SelectSeq(LinksOf(readFileSync(agentsPath)),
                            LAMBDA linkPath : ~existsSyncLink(rootDir, linkPath))
    IN  IF ~existsSync(agentsPath) THEN <<>>
        ELSE [i \in 1..Len(broken) |->
                 Finding("Broken link in AGENTS.md: ", broken[i], 0)]

validateCrossLinksJS(rootDir) ==
    LET agentsPath == join(rootDir, <<"AGENTS.md">>)
        broken == SelectSeq(LinksOf(readFileSync(agentsPath)),
                            LAMBDA linkPath :
                                /\ ~startsWithHttp(linkPath)
                                /\ ~existsSyncLink(rootDir, linkPath))
    IN  IF ~existsSync(agentsPath) THEN <<>>
        ELSE [i \in 1..Len(broken) |->
                 Finding("Broken link in AGENTS.md: ", broken[i], 0)]

validateDocFreshnessJS(rootDir) ==
    LET designDocsDir == join(rootDir, <<"docs", "design-docs">>)
        docs == SelectSeq(readdirSync(designDocsDir), endsWithMd)
        checked == SelectSeq(docs, LAMBDA file : file # "index.md" /\ file # "template.md")
        stale == SelectSeq(checked,
                           LAMBDA file :
                               now - statSyncMtime(Append(designDocsDir, file)) > sixMonths)
    IN  IF ~existsSync(designDocsDir) THEN <<>>
        ELSE IF Len(docs) = 0
        THEN << Finding("No design documents found in docs/design-docs/", <<>>, 0) >>
        ELSE [i \in 1..Len(stale) |->
                 Finding("Design doc hasn't been updated in 6+ months: ", <<stale[i]>>, 0)]

\* Mutant: the findings of the root-document check are dropped.
validateJSSkipsRootDocs(rootDir) ==
    LET b == validateDocsStructureJS(rootDir)
        c == validateCrossLinksJS(rootDir)
        d == validateDocFreshnessJS(rootDir)
    IN  [ errors |-> b.errors,
          warnings |-> b.warnings \o c \o d,
          out |-> consoleLog(b.errors, b.warnings \o c \o d),
          exit |-> << IF Len(b.errors) = 0 THEN 0 ELSE 1 >> ]

validateJS(rootDir) ==
    LET a == validateRootDocsJS(rootDir)
        b == validateDocsStructureJS(rootDir)
        c == validateCrossLinksJS(rootDir)
        d == validateDocFreshnessJS(rootDir)
        errors == a.errors \o b.errors
    IN  [ errors |-> errors,
          warnings |-> a.warnings \o b.warnings \o c \o d,
          out |-> consoleLog(errors, a.warnings \o b.warnings \o c \o d),
          exit |-> << IF Len(errors) = 0 THEN 0 ELSE 1 >> ]

\* tsx scripts/validate-structure.ts, run with the target as working
\* directory: new StructureValidator().validate(); process.exit(...).
RunValidatorTS ==
    /\ pc = "idle" \/ Ended
    /\ <<"scripts", "validate-structure.ts">> \in DOMAIN files
    /\ files[<<"scripts", "validate-structure.ts">>] = getValidationScriptTemplate("typescript")
    /\ ValidatorCompletes(Root)
    /\ v' = [via |-> "tsx", ran |-> "typescript", rootDir |-> Root] @@ validateTS(Root)
    /\ UNCHANGED <<log, edits, ticks, pc, idx, project, dirs, files, mtime, now, out, exit, runs,
                   touched, startedEmpty, snap>>

\* node scripts/validate-structure.js, run with the target as working
\* directory.
RunValidatorJS ==
    /\ pc = "idle" \/ Ended
    /\ <<"scripts", "validate-structure.js">> \in DOMAIN files
    /\ files[<<"scripts", "validate-structure.js">>] = getValidationScriptTemplate("javascript")
    /\ ValidatorCompletes(Root)
    /\ v' = [via |-> "node", ran |-> "javascript", rootDir |-> Root] @@ validateJS(Root)
    /\ UNCHANGED <<log, edits, ticks, pc, idx, project, dirs, files, mtime, now, out, exit, runs,
                   touched, startedEmpty, snap>>

\* The argument of the command a manifest script runs ("tsx <path>"), split
\* at "/".
CommandArgPath(command) ==
    IF command = "tsx scripts/validate-structure.ts"
    THEN <<"scripts", "validate-structure.ts">>
    ELSE <<>>

\* cd scripts && npm install && npm run validate: the command the README and
\* the workflow give for the typed variant.  The manifest's validate script
\* runs with scripts/ as working directory; tsx ends with code 1 when the
\* file it is given does not exist, and otherwise the validator checks its
\* working directory.
NpmRunValidate ==
    /\ pc = "idle" \/ Ended
    /\ <<"scripts", "package.json">> \in DOMAIN files
    /\ LET cwd == <<"scripts">>
           manifest == JSONparse(files[<<"scripts", "package.json">>])
           script == join(cwd, CommandArgPath(manifest.scripts.validate))
       IN  /\ "scripts" \in DOMAIN manifest
           /\ IF /\ script \in DOMAIN files
                 /\ files[script] = getValidationScriptTemplate("typescript")
              THEN /\ ValidatorCompletes(cwd)
                   /\ v' = [via |-> "npm run validate", ran |-> "typescript",
                            rootDir |-> cwd] @@ validateTS(cwd)
              ELSE v' = [via |-> "npm run validate", ran |-> "", rootDir |-> cwd,
                         errors |-> <<>>, warnings |-> <<>>, out |-> <<>>,
                         exit |-> <<1>>]
    /\ UNCHANGED <<log, edits, ticks, pc, idx, project, dirs, files, mtime, now, out, exit,
                   runs, touched, startedEmpty, snap>>

(***************************************************************************)
(* The user, working on a scaffolded project by hand                       *)
(***************************************************************************)
\* The text with one of its characters replaced.
ChangeOneChar(text) == Text(text.tmpl, text.holes \o <<OneCharReplaced>>)

\* The text with a line added at its end.
AppendLine(text, line) == Text(text.tmpl, text.holes \o <<line>>)

\* What the user may remove: each directory the validator requires, a
\* document it requires and an index file it looks for.
Removable ==
    { <<"docs", "design-docs">>,
      <<"docs", "exec-plans", "active">>,
      <<"docs", "exec-plans", "completed">>,
      <<"docs", "product-specs">>,
      <<"docs", "references">>,
      <<"docs", "generated">>,
      <<"AGENTS.md">>,
      <<"docs", "design-docs", "index.md">> }

\* A change by hand is made to a project the tool has completed; what an
\* earlier validator run found is of the past then.
UserEdit ==
    /\ pc = "done"
    /\ edits < MaxEdits
    /\ edits' = edits + 1
    /\ v' = NoValidation
    /\ UNCHANGED <<log, ticks, pc, idx, project, now, out, exit, runs, touched,
                   startedEmpty, snap>>

\* The user replaces one character of CLAUDE.md.
UserChangesOneChar ==
    /\ <<"CLAUDE.md">> \in DOMAIN files
    /\ files' = writeFileSync(files, <<"CLAUDE.md">>,
                              ChangeOneChar(files[<<"CLAUDE.md">>]))
    /\ mtime' = [mtime EXCEPT ![<<"CLAUDE.md">>] = now]
    /\ UNCHANGED dirs
    /\ UserEdit

\* The user adds a line with a link at the end of AGENTS.md.
UserAppendsLink ==
    /\ <<"AGENTS.md">> \in DOMAIN files
    /\ \E line \in UserLinkLines :
          files' = writeFileSync(files, <<"AGENTS.md">>,
                                 AppendLine(files[<<"AGENTS.md">>], line))
    /\ mtime' = [mtime EXCEPT ![<<"AGENTS.md">>] = now]
    /\ UNCHANGED dirs
    /\ UserEdit

\* The user removes a document, or a directory together with its contents.
UserRemoves ==
    /\ \E p \in Removable :
          /\ existsSync(p)
          /\ dirs' = { d \in dirs : ~IsUnder(d, p) }
          /\ files' = [f \in { f \in DOMAIN files : ~IsUnder(f, p) } |-> files[f]]
          /\ mtime' = [f \in { f \in DOMAIN files : ~IsUnder(f, p) } |-> mtime[f]]
    /\ UserEdit

\* The user puts an old copy of the core-beliefs document in place, keeping
\* the modification time of the copy: a day more than six months ago.
UserRestoresOldCopy ==
    /\ <<"docs", "design-docs">> \in dirs
    /\ files' = writeFileSync(files, <<"docs", "design-docs", "core-beliefs.md">>,
                              getCoreBeliefsTemplate)
    /\ mtime' = [p \in DOMAIN files' |->
                    IF p = <<"docs", "design-docs", "core-beliefs.md">>
                    THEN now - (sixMonths + 1) ELSE mtime[p]]
    /\ UNCHANGED dirs
    /\ UserEdit

\* A text of n lines of prose, its last line with or without its line break.
Lines(n, terminated) ==
    Text("", [i \in 1..n |-> IF i = n /\ ~terminated THEN PlainLineOpen ELSE PlainLine])

\* The lines with a link the user may add in one place.
AnyLinkLines == {MissingLinkLine, ExternalLinksLine, HttpNamedLinkLine, MailtoLinkLine}

\* A change by hand to a project the tool has completed, outside the count
\* of the edits: what an earlier validator run found is of the past then.
UserChange ==
    /\ pc = "done"
    /\ v' = NoValidation
    /\ UNCHANGED <<log, edits, ticks, pc, idx, project, now, out, exit, runs, touched,
                   startedEmpty, snap>>

\* The user replaces the emitted agent guide, in AGENTS.md and in CLAUDE.md,
\* by a text of their own of about 150 lines.
UserWritesGuide ==
    /\ <<"AGENTS.md">> \in DOMAIN files /\ files[<<"AGENTS.md">>].tmpl = "getAgentsTemplate"
    /\ <<"CLAUDE.md">> \in DOMAIN files
    /\ \E n \in (MaxLines - 2)..MaxLines : \E terminated \in BOOLEAN :
          files' = writeFileSync(writeFileSync(files, <<"AGENTS.md">>, Lines(n, terminated)),
                                 <<"CLAUDE.md">>, Lines(n, terminated))
    /\ mtime' = [mtime EXCEPT ![<<"AGENTS.md">>] = now, ![<<"CLAUDE.md">>] = now]
    /\ UNCHANGED dirs
    /\ UserChange

\* The user adds a line with a link at the end of the emitted AGENTS.md.
UserAppendsAnyLink ==
    /\ <<"AGENTS.md">> \in DOMAIN files
    /\ files[<<"AGENTS.md">>] = getAgentsTemplate(project.projectType)
    /\ \E line \in AnyLinkLines :
          files' = writeFileSync(files, <<"AGENTS.md">>, AppendLine(files[<<"AGENTS.md">>], line))
    /\ mtime' = [mtime EXCEPT ![<<"AGENTS.md">>] = now]
    /\ UNCHANGED dirs
    /\ UserChange

\* The user removes one of the documents of docs/design-docs.
UserRemovesDesignDoc ==
    /\ \E name \in { EntryNames[i] : i \in 1..Len(EntryNames) } :
          LET p == <<"docs", "design-docs", name>> IN
          /\ p \in DOMAIN files
          /\ files' = [f \in DOMAIN files \ {p} |-> files[f]]
          /\ mtime' = [f \in DOMAIN files \ {p} |-> mtime[f]]
    /\ UNCHANGED dirs
    /\ UserChange

\* Time passes after the run has ended: a day, or the validator's six months.
\* The findings of an earlier validator run are of the past then.
Tick ==
    /\ Ended
    /\ ticks < MaxTicks
    /\ \E d \in {1, sixMonths} : now' = now + d
    /\ ticks' = ticks + 1
    /\ v' = NoValidation
    /\ UNCHANGED <<log, edits, pc, idx, project, dirs, files, mtime, out, exit, runs,
                   touched, startedEmpty, snap>>

\* One invocation of the tool on a target that is absent, empty or a file,
\* with every way it can end, and the validator runs that follow it at once
\* or later.
Next ==
    \/ Start
    \/ Tick
    \/ Answer
    \/ onCancel
    \/ MkRoot
    \/ MkDir
    \/ WriteFile
    \/ Finish
    \/ ThrowCannot
    \/ ThrowRefused
    \/ RunValidatorTS
    \/ RunValidatorJS
    \/ NpmRunValidate

Spec == Init /\ [][Next]_vars

\* Repeated invocations on the same target, on a file system that refuses
\* nothing.
NextRerun ==
    \/ Start
    \/ Relaunch
    \/ Answer
    \/ onCancel
    \/ MkRoot
    \/ MkDir
    \/ WriteFile
    \/ Finish
    \/ ThrowCannot
    \/ RunValidatorTS
    \/ RunValidatorJS

SpecRerun == Init /\ [][NextRerun]_vars

\* One invocation, then the user's changes by hand to the scaffolded project
\* and the validator runs on what they leave.
NextEdit ==
    \/ Start
    \/ Answer
    \/ MkRoot
    \/ MkDir
    \/ WriteFile
    \/ Finish
    \/ UserChangesOneChar
    \/ UserAppendsLink
    \/ UserRemoves
    \/ UserRestoresOldCopy
    \/ RunValidatorTS
    \/ RunValidatorJS

SpecEdit == Init /\ [][NextEdit]_vars

\* The tool is run again after the first run failed, and the user gives the
\* five answers of the failed run: the new process is at its first
\* file-system call with the same config.
RetrySameConfig ==
    /\ pc = "failed" /\ runs = 1
    /\ pc' = "root" /\ idx' = 0
    /\ out' = <<>> /\ exit' = <<>> /\ runs' = runs + 1
    /\ touched' = {} /\ log' = <<>> /\ startedEmpty' = TargetEmpty
    /\ v' = NoValidation
    /\ UNCHANGED <<edits, ticks, project, dirs, files, mtime, now, snap>>

\* A call of the first run is refused.
FirstRunRefused == runs = 1 /\ ThrowRefused

\* The target is absent or an empty directory.
InitEmpty == Init /\ TargetEmpty

\* A first run on an empty target that any of its calls may end, then a run
\* with the same config that nothing refuses.
NextRetry ==
    \/ Start
    \/ Answer
    \/ MkRoot
    \/ MkDir
    \/ WriteFile
    \/ Finish
    \/ FirstRunRefused
    \/ RetrySameConfig

SpecRetry == InitEmpty /\ [][NextRetry]_vars

\* Files of the user's that are in the target before the tool ever runs: one
\* at a path no config writes, in a directory no config creates, and one at
\* a path every config writes.
NotesPath == <<"notes", "todo.txt">>

UserText == Text("user", <<>>)

\* The target is a directory the user already works in.
InitUsed ==
    /\ pc = "idle" /\ idx = 0 /\ project = <<>>
    /\ dirs = {Root, <<"notes">>}
    /\ files = [p \in {NotesPath, <<"README.md">>} |-> UserText]
    /\ mtime = [p \in DOMAIN files |-> 0]
    /\ now = 0 /\ ticks = 0 /\ edits = 0
    /\ out = <<>> /\ exit = <<>> /\ runs = 0
    /\ touched = {} /\ log = <<>> /\ startedEmpty = FALSE
    /\ snap = NoSnap
    /\ v = NoValidation

\* The tool is run a second time on the target of a completed run.
RunAgain == pc = "done" /\ runs = 1 /\ Launch

\* A run with one config and then a run with any config, in a directory
\* that holds files of the user's.
NextFrame ==
    \/ Start
    \/ RunAgain
    \/ Answer
    \/ onCancel
    \/ MkRoot
    \/ MkDir
    \/ WriteFile
    \/ Finish

SpecFrame == InitUsed /\ [][NextFrame]_vars

\* One invocation on an empty target, then the user's rewriting of the agent
\* guide, added links and removed design documents, and the validator runs
\* on what they leave.
NextDocs ==
    \/ Start
    \/ Answer
    \/ MkRoot
    \/ MkDir
    \/ WriteFile
    \/ Finish
    \/ UserWritesGuide
    \/ UserAppendsAnyLink
    \/ UserRemovesDesignDoc
    \/ RunValidatorTS
    \/ RunValidatorJS

SpecDocs == InitEmpty /\ [][NextDocs]_vars

(***************************************************************************)
(* Properties                                                              *)
(***************************************************************************)
\* The run has collected its whole config (it is past the prompts).
Collected == pc \in {"root", "dirs", "write", "finish", "done", "failed"}

AgentsMd == <<"AGENTS.md">>
ClaudeMd == <<"CLAUDE.md">>
FrontendMd == <<"FRONTEND.md">>
ReadmeMd == <<"README.md">>
ManifestPath == <<"scripts", "package.json">>
WorkflowPath == <<".github", "workflows", "validate-docs.yml">>
LinkCheckPath == <<".github", "markdown-link-check-config.json">>
DesignDocTemplatePath == <<"docs", "design-docs", "template.md">>
ProductSpecTemplatePath == <<"docs", "product-specs", "template.md">>

\* The paths main() writes for a config.
WrittenPaths(proj) == { writes(proj)[i].path : i \in 1..Len(writes(proj)) }

\* The paths main() creates for a config: the directories with their
\* ancestors, and the files.
EmissionPaths(proj) ==
    {Root}
    \cup UNION { Prefixes(directories(proj)[i]) : i \in 1..Len(directories(proj)) }
    \cup WrittenPaths(proj)

\* A validator has run on the result of a completed emission into an empty
\* (or absent) target, before any time has passed.
ValidatedFreshScaffold ==
    /\ pc = "done" /\ startedEmpty
    /\ v.ran # ""
    /\ \A p \in DOMAIN mtime : mtime[p] = now

\* C1 as stated: the validator run right after a successful emission into an
\* empty target records no error and exactly one warning, the "No design
\* documents found" one.
C1_OneNoDesignDocsWarning ==
    ValidatedFreshScaffold =>
        /\ v.errors = <<>>
        /\ v.warnings =
             << Finding("No design documents found in docs/design-docs/", <<>>, 0) >>

\* C1 amended: the validator (either variant) run right after a successful
\* emission into an empty target records no error and no warning at all, and
\* exits 0: the emitted core-beliefs.md is a design document.
C1_FreshScaffoldHasNoFindings ==
    ValidatedFreshScaffold =>
        /\ v.errors = <<>>
        /\ v.warnings = <<>>
        /\ v.exit = <<0>>

C1_Witness ==
    /\ ValidatedFreshScaffold
    /\ v.ran = "typescript"
    /\ project.projectType = "backend"

\* C2 as stated: a cancelled prompt session prints the cancellation message
\* and exits non-zero, and exit code 0 comes only from a successful run.
C2_CancelExitsNonZero ==
    /\ pc = "cancelled" =>
          /\ out = <<"Operation cancelled.">>
          /\ exit # <<>> /\ exit # <<0>>
    /\ exit = <<0>> => pc = "done"

\* C2 amended: a cancelled prompt session prints "Operation cancelled." and
\* the process exits with code 0, having touched nothing.
C2_CancelExitsZero ==
    pc = "cancelled" =>
        /\ out = <<"Operation cancelled.">>
        /\ exit = <<0>>
        /\ touched = {}

C2_Witness == pc = "cancelled" /\ idx = 3 /\ exit # <<>>

\* C3: a file-system failure during emission ends the process with a
\* non-zero exit status.
C3_FailureExitsNonZero ==
    pc = "failed" => exit # <<>> /\ exit # <<0>>

\* C4 as stated: after a completed emission FRONTEND.md exists exactly when
\* projectType is frontend or fullstack.
C4_FrontendMdIffUiProject ==
    pc = "done" =>
        (FrontendMd \in DOMAIN files
            <=> project.projectType \in {"fullstack", "frontend"})

\* C4 amended: after a completed emission FRONTEND.md exists when projectType
\* is frontend or fullstack; for backend the run does not write it, so it is
\* absent when the run started on an empty target and otherwise is whatever
\* an earlier run left.
C4_FrontendMdWrittenIffUiProject ==
    pc = "done" =>
        IF project.projectType \in {"fullstack", "frontend"}
        THEN /\ FrontendMd \in touched
             /\ FrontendMd \in DOMAIN files
             /\ files[FrontendMd] = getFrontendTemplate
        ELSE /\ FrontendMd \notin touched
             /\ startedEmpty => FrontendMd \notin DOMAIN files

C4_Witness ==
    /\ pc = "done"
    /\ project.projectType = "backend"
    /\ FrontendMd \in DOMAIN files
    /\ FrontendMd \notin touched

\* C5: after a successful emission CLAUDE.md holds the same bytes as
\* AGENTS.md.
C5_ClaudeEqualsAgents ==
    pc = "done" =>
        /\ AgentsMd \in DOMAIN files
        /\ ClaudeMd \in DOMAIN files
        /\ files[ClaudeMd] = files[AgentsMd]

C5_Witness ==
    /\ pc = "done"
    /\ project.projectType = "fullstack"
    /\ {AgentsMd, ClaudeMd} \subseteq touched
    /\ files[AgentsMd].holes = <<FrontendLine>>

\* The run that just completed is the one right after the completed run on
\* the empty target, with the same config.
SecondRunSameConfig ==
    /\ pc = "done"
    /\ snap.run > 0
    /\ runs = snap.run + 1
    /\ project = snap.cfg

\* C6: a second run with the same config leaves exactly the directories and
\* files, with the same contents, that the first run on the empty target left.
C6_SecondRunChangesNothing ==
    SecondRunSameConfig => dirs = snap.dirs /\ files = snap.files

C6_Witness ==
    /\ SecondRunSameConfig
    /\ ~startedEmpty
    /\ ReadmeMd \in touched

\* C7: a run with includeCI false creates no directory and writes no file at
\* or under .github; a completed run with includeCI true leaves the workflow
\* file and the link-check configuration.
C7_GithubIffIncludeCI ==
    Collected =>
        IF project.includeCI
        THEN pc = "done" =>
                /\ {WorkflowPath, LinkCheckPath} \subseteq touched
                /\ {WorkflowPath, LinkCheckPath} \subseteq DOMAIN files
                /\ files[WorkflowPath] = getGithubWorkflowTemplate(project.validationLanguage)
                /\ files[LinkCheckPath] = getMarkdownLinkCheckConfig
        ELSE /\ \A p \in touched : ~IsUnder(p, <<".github">>)
             /\ startedEmpty => \A p \in dirs \cup DOMAIN files : ~IsUnder(p, <<".github">>)

C7_Witness ==
    /\ pc = "done"
    /\ project.includeCI
    /\ startedEmpty
    /\ <<".github">> \in touched
    /\ LinkCheckPath \in DOMAIN files

\* C8: a typed-variant run writes scripts/validate-structure.ts and a
\* manifest scripts/package.json declaring exactly one dependency; a
\* plain-variant run writes scripts/validate-structure.js and no manifest.
C8_ScriptAndManifestByLanguage ==
    Collected =>
        IF project.validationLanguage = "typescript"
        THEN /\ <<"scripts", "validate-structure.js">> \notin touched
             /\ pc = "done" =>
                   /\ {<<"scripts", "validate-structure.ts">>, ManifestPath} \subseteq touched
                   /\ files[<<"scripts", "validate-structure.ts">>]
                         = getValidationScriptTemplate("typescript")
                   /\ Cardinality(DeclaredDependencies(JSONparse(files[ManifestPath]))) = 1
        ELSE /\ <<"scripts", "validate-structure.ts">> \notin touched
             /\ ManifestPath \notin touched
             /\ startedEmpty => ManifestPath \notin DOMAIN files
             /\ pc = "done" =>
                   /\ <<"scripts", "validate-structure.js">> \in touched
                   /\ files[<<"scripts", "validate-structure.js">>]
                         = getValidationScriptTemplate("javascript")

C8_Witness ==
    /\ pc = "done"
    /\ project.validationLanguage = "typescript"
    /\ ManifestPath \in touched
    /\ DeclaredDependencies(JSONparse(files[ManifestPath])) = {"tsx"}

\* The documents of the completed run that name FRONTEND.md.
DocsMentioningFrontendMd ==
    { p \in WrittenPaths(project) : MentionsFrontendMd(files[p]) }

\* The documents of the completed run with a link to FRONTEND.md.
DocsLinkingFrontendMd ==
    { p \in WrittenPaths(project) :
        \E i \in 1..Len(LinksOf(files[p])) :
            join(Parent(p), LinksOf(files[p])[i]) = FrontendMd }

\* C9 as stated: with projectType backend no emitted document refers to
\* FRONTEND.md.
C9_BackendNeverMentionsFrontendMd ==
    pc = "done" /\ project.projectType = "backend" =>
        DocsMentioningFrontendMd = {}

\* C9 amended: AGENTS.md and CLAUDE.md refer (and link) to FRONTEND.md exactly
\* when projectType is fullstack or frontend, and no document links to it for
\* backend; README.md names FRONTEND.md in its structure listing for every
\* project type, with the suffix " (if applicable)" exactly for backend.
C9_OnlyReadmeListsFrontendMdForBackend ==
    pc = "done" =>
        /\ ReadmeMd \in DocsMentioningFrontendMd
        /\ files[ReadmeMd].holes[1]
              = (IF project.projectType = "backend" THEN " (if applicable)" ELSE "")
        /\ IF project.projectType = "backend"
           THEN DocsMentioningFrontendMd = {ReadmeMd} /\ DocsLinkingFrontendMd = {}
           ELSE /\ DocsMentioningFrontendMd = {AgentsMd, ClaudeMd, ReadmeMd}
                /\ DocsLinkingFrontendMd = {AgentsMd, ClaudeMd}

C9_Witness ==
    /\ pc = "done"
    /\ project.projectType = "backend"
    /\ MentionsFrontendMd(files[ReadmeMd])
    /\ ~MentionsFrontendMd(files[AgentsMd])

\* The relative links of an emitted document that do not resolve, from the
\* document's own directory, to a path the run's config creates and that
\* exists.
UnresolvedLinks(p) ==
    { i \in 1..Len(LinksOf(files[p])) :
        LET link == LinksOf(files[p])[i] IN
            /\ ~startsWithHttp(link)
            /\ ~ ( /\ join(Parent(p), link) \in EmissionPaths(project)
                   /\ existsSyncLink(Parent(p), link) ) }

\* C10 as stated: every relative link of every emitted document resolves to
\* something the emitter creates for the config.
C10_EveryRelativeLinkResolves ==
    pc = "done" => \A p \in WrittenPaths(project) : UnresolvedLinks(p) = {}

\* C10 amended: every relative link of every emitted document other than the
\* two fill-in templates resolves to something the emitter creates for the
\* config; the example links of docs/design-docs/template.md (./other-doc.md)
\* and docs/product-specs/template.md (./other-spec.md, link, link) resolve
\* to nothing.
C10_LinksResolveExceptTemplatePlaceholders ==
    pc = "done" =>
        /\ \A p \in WrittenPaths(project) \ {DesignDocTemplatePath, ProductSpecTemplatePath} :
              UnresolvedLinks(p) = {}
        /\ UnresolvedLinks(DesignDocTemplatePath) = {1}
        /\ UnresolvedLinks(ProductSpecTemplatePath) = {1, 2, 3}

C10_Witness ==
    /\ pc = "done"
    /\ project.projectType = "frontend"
    /\ join(Parent(AgentsMd), LinksOf(files[AgentsMd])[8]) = FrontendMd
    /\ join(Parent(<<"docs", "design-docs", "index.md">>),
            LinksOf(files[<<"docs", "design-docs", "index.md">>])[1])
          = <<"docs", "design-docs", "core-beliefs.md">>
    /\ UnresolvedLinks(AgentsMd) = {}

\* C11: the README of a completed emission contains the CI instructions
\* exactly when includeCI is true.
C11_ReadmeReflectsIncludeCI ==
    pc = "done" =>
        (HasCIInstructions(files[ReadmeMd]) <=> project.includeCI)

\* The project is the completed scaffold of an empty target with nothing
\* changed but CLAUDE.md, in which one character was replaced, and a
\* validator has run on it from the project root.
ValidatedAfterClaudeEdit ==
    /\ pc = "done" /\ snap.run = runs
    /\ v.ran # "" /\ v.rootDir = Root
    /\ dirs = snap.dirs
    /\ files = [snap.files EXCEPT ![ClaudeMd] = ChangeOneChar(snap.files[ClaudeMd])]

\* C12: on a fresh scaffold in which only one character of CLAUDE.md was
\* changed, the validator (either variant) records exactly one error, the
\* "AGENTS.md and CLAUDE.md must be identical" one, and exits 1.
C12_ClaudeEditIsTheOnlyError ==
    ValidatedAfterClaudeEdit =>
        /\ v.errors = << Finding("AGENTS.md and CLAUDE.md must be identical", <<>>, 0) >>
        /\ v.exit = <<1>>

C12_Witness ==
    /\ ValidatedAfterClaudeEdit
    /\ v.ran = "javascript"
    /\ edits = 1
    /\ files[AgentsMd] = snap.files[AgentsMd]
    /\ files[ClaudeMd] # files[AgentsMd]

RequiredDirs ==
    { <<"docs", "design-docs">>,
      <<"docs", "exec-plans", "active">>,
      <<"docs", "exec-plans", "completed">>,
      <<"docs", "product-specs">>,
      <<"docs", "references">>,
      <<"docs", "generated">> }

\* The project is the completed scaffold of an empty target with nothing
\* changed but directory d, removed with its contents, and a validator has
\* run on it from the project root.
ValidatedAfterRemoving(d) ==
    /\ pc = "done" /\ snap.run = runs
    /\ v.ran # "" /\ v.rootDir = Root
    /\ d \in snap.dirs
    /\ dirs = { x \in snap.dirs : ~IsUnder(x, d) }
    /\ files = [f \in { f \in DOMAIN snap.files : ~IsUnder(f, d) } |-> snap.files[f]]

\* C13: on a fresh scaffold from which one of the six required
\* subdirectories was removed with its contents, the validator (either
\* variant) records exactly one error, "Missing required directory" for that
\* path; whatever else the removal causes is in the warnings.
C13_RemovedDirIsTheOnlyError ==
    \A d \in RequiredDirs :
        ValidatedAfterRemoving(d) =>
            /\ v.errors = << Finding("Missing required directory: ", d, 0) >>
            /\ v.exit = <<1>>

C13_Witness ==
    /\ ValidatedAfterRemoving(<<"docs", "design-docs">>)
    /\ v.ran = "typescript"
    /\ v.warnings =
         << Finding("Missing index file: ", <<"docs", "design-docs", "index.md">>, 0),
            Finding("Broken link in AGENTS.md: ",
                    <<".", "docs", "design-docs", "index.md">>, 0),
            Finding("Broken link in AGENTS.md: ",
                    <<".", "docs", "design-docs", "core-beliefs.md">>, 0) >>

\* The link path starts with the scheme of an external address.
HasHttpScheme(link) == link[1] \in {"http:", "https:"}

\* The warnings of the last validator run that report the link path broken.
BrokenLinkWarnings(link) ==
    { k \in 1..Len(v.warnings) :
        v.warnings[k] = Finding("Broken link in AGENTS.md: ", link, 0) }

\* The occurrences of the link path in AGENTS.md, when it resolves to nothing
\* from the project root.
MissingOccurrences(link) ==
    { j \in 1..Len(LinksOf(files[AgentsMd])) :
        /\ LinksOf(files[AgentsMd])[j] = link
        /\ ~existsSyncLink(Root, link) }

\* C14: for each link occurrence of AGENTS.md, a relative path that resolves
\* to nothing from the project root gets exactly one "Broken link in
\* AGENTS.md" warning naming it (one per occurrence), and a path with an
\* http or https scheme gets none.
C14_BrokenRelativeLinksWarned ==
    v.ran # "" /\ v.rootDir = Root /\ AgentsMd \in DOMAIN files =>
        \A i \in 1..Len(LinksOf(files[AgentsMd])) :
            LET link == LinksOf(files[AgentsMd])[i] IN
                IF HasHttpScheme(link)
                THEN BrokenLinkWarnings(link) = {}
                ELSE Cardinality(BrokenLinkWarnings(link))
                        = Cardinality(MissingOccurrences(link))

\* C15: a validator run (of either variant) that completes exits 0 exactly
\* when its error list is empty, and otherwise 1, whatever its warnings.
C15_ExitZeroIffNoErrors ==
    v.ran # "" =>
        /\ v.exit \in {<<0>>, <<1>>}
        /\ v.exit = <<0>> <=> v.errors = <<>>

C15_Witness ==
    /\ v.ran = "typescript"
    /\ v.errors = <<>>
    /\ Len(v.warnings) = 2
    /\ v.exit = <<0>>

\* C16: on every state of the project directory the two validator variants
\* yield the same sequence of errors, the same sequence of warnings (each in
\* the order of the four checks) and the same exit code.
C16_VariantsAgree ==
    ValidatorCompletes(Root) => validateTS(Root) = validateJS(Root)

C16_Witness ==
    /\ pc = "done"
    /\ v.ran = "javascript"
    /\ v = [via |-> "node", ran |-> "javascript", rootDir |-> Root] @@ validateTS(Root)
    /\ Len(v.errors) = 2
    /\ Len(v.warnings) = 3
    /\ \E i \in 1..Len(LinksOf(files[AgentsMd])) :
          HasHttpScheme(LinksOf(files[AgentsMd])[i])

\* C17: after a typed-variant emission, the manifest's validate command, run
\* from the directory of the manifest as the README and the workflow say,
\* names a path where the emitted validation script is, so the validator
\* starts, and it checks the scaffolded project root.
C17_ManifestCommandRunsValidator ==
    /\ pc = "done"
    /\ project.validationLanguage = "typescript"
    /\ v.via = "npm run validate"
    =>  /\ LET command == JSONparse(files[ManifestPath]).scripts.validate
               script == join(Parent(ManifestPath), CommandArgPath(command))
           IN  /\ script \in DOMAIN files
               /\ files[script] = getValidationScriptTemplate("typescript")
        /\ v.ran = "typescript"
        /\ v.rootDir = Root

\* The "run validation" commands a text renders.
RunCommandsIn(text) ==
    CASE text.tmpl = "getGithubWorkflowTemplate" -> { text.holes[1] }
      [] text.tmpl = "getReadmeTemplate" -> { text.holes[3], text.holes[4] }
      [] OTHER -> {}

\* C18: the README and the CI workflow of a completed emission render the
\* same run-validation command, 'cd scripts && npm install && npm run
\* validate' for the typed variant and 'node scripts/validate-structure.js'
\* for the plain one; the templates agree for each variant and differ between
\* the variants.
C18_SameValidateCommand ==
    /\ pc = "done" =>
          LET expected ==
                  IF project.validationLanguage = "typescript"
                  THEN "cd scripts && npm install && npm run validate"
                  ELSE "node scripts/validate-structure.js"
          IN  /\ RunCommandsIn(files[ReadmeMd]) = {expected}
              /\ project.includeCI => RunCommandsIn(files[WorkflowPath]) = {expected}
    /\ \A lang \in Answers("validationLanguage"), type \in Answers("projectType") :
          RunCommandsIn(getGithubWorkflowTemplate(lang))
              = RunCommandsIn(getReadmeTemplate(type, lang))
    /\ RunCommandsIn(getGithubWorkflowTemplate("typescript"))
          # RunCommandsIn(getGithubWorkflowTemplate("javascript"))
    /\ \A type \in Answers("projectType") :
          RunCommandsIn(getReadmeTemplate(type, "typescript"))
              # RunCommandsIn(getReadmeTemplate(type, "javascript"))

C18_Witness ==
    /\ pc = "done"
    /\ project.validationLanguage = "typescript"
    /\ project.includeCI
    /\ WorkflowPath \in touched
    /\ RunCommandsIn(files[WorkflowPath]) = RunCommandsIn(files[ReadmeMd])

BaseDirs ==
    { <<"docs", "design-docs">>,
      <<"docs", "exec-plans", "active">>,
      <<"docs", "exec-plans", "completed">>,
      <<"docs", "product-specs">>,
      <<"docs", "references">>,
      <<"docs", "generated">>,
      <<"scripts">> }

EmptyDirs ==
    { <<"docs", "references">>,
      <<"docs", "generated">>,
      <<"docs", "exec-plans", "active">>,
      <<"docs", "exec-plans", "completed">> }

\* The documents that are there for every option value, but for the
\* validation script, whose name has the extension of the variant.
FixedDocs ==
    { <<"AGENTS.md">>, <<"CLAUDE.md">>, <<"ARCHITECTURE.md">>, <<"DESIGN.md">>,
      <<"PLANS.md">>, <<"PRODUCT_SENSE.md">>, <<"QUALITY_SCORE.md">>,
      <<"RELIABILITY.md">>, <<"SECURITY.md">>,
      <<".gitignore">>, <<"biome.json">>, <<"README.md">>,
      <<"docs", "design-docs", "index.md">>,
      <<"docs", "design-docs", "core-beliefs.md">>,
      <<"docs", "design-docs", "template.md">>,
      <<"docs", "exec-plans", "template.md">>,
      <<"docs", "exec-plans", "tech-debt-tracker.md">>,
      <<"docs", "product-specs", "index.md">>,
      <<"docs", "product-specs", "template.md">> }

\* A set of directories with the directories above them, up to the target.
WithAncestors(ds) == UNION { Prefixes(d) : d \in ds }

\* C19: after a successful emission into an empty target the files are the
\* fixed documents, the validation script, and of FRONTEND.md,
\* scripts/package.json and the two .github files those the options select;
\* the directories are the seven base directories (and .github/workflows
\* with includeCI) with the directories above them; and docs/references,
\* docs/generated, docs/exec-plans/active and docs/exec-plans/completed are
\* empty.
C19_ExactEmission ==
    pc = "done" /\ startedEmpty =>
        /\ DOMAIN files =
              FixedDocs
              \cup { IF project.validationLanguage = "typescript"
                     THEN <<"scripts", "validate-structure.ts">>
                     ELSE <<"scripts", "validate-structure.js">> }
              \cup (IF project.projectType \in {"fullstack", "frontend"}
                    THEN {FrontendMd} ELSE {})
              \cup (IF project.validationLanguage = "typescript"
                    THEN {ManifestPath} ELSE {})
              \cup (IF project.includeCI THEN {WorkflowPath, LinkCheckPath} ELSE {})
        /\ dirs =
              WithAncestors(BaseDirs
                            \cup (IF project.includeCI
                                  THEN { <<".github", "workflows">> } ELSE {}))
        /\ \A d \in EmptyDirs :
              /\ d \in dirs
              /\ \A p \in dirs \cup DOMAIN files : IsUnder(p, d) => p = d

C19_Witness ==
    /\ pc = "done" /\ startedEmpty
    /\ project.projectType = "backend"
    /\ project.validationLanguage = "javascript"
    /\ ~project.includeCI
    /\ Cardinality(DOMAIN files) = 20
    /\ Cardinality(dirs) = 10

\* The run that just completed is the one right after the completed run on
\* the empty target, with a config that differs in includeObservability and
\* in nothing else.
SecondRunOtherObservability ==
    /\ pc = "done"
    /\ snap.run > 0
    /\ runs = snap.run + 1
    /\ project = [snap.cfg EXCEPT !.includeObservability = ~@]

\* C20: what a run emits does not depend on includeObservability: the
\* directories and writes planned for the config are those planned for the
\* config with the other answer, and a run that differs from the one before
\* it only in that answer leaves the directories and the file contents the
\* same.
C20_ObservabilityChangesNothing ==
    /\ Collected =>
          LET other == [project EXCEPT !.includeObservability = ~@]
          IN  /\ directories(other) = directories(project)
              /\ writes(other) = writes(project)
    /\ SecondRunOtherObservability => dirs = snap.dirs /\ files = snap.files

C20_Witness ==
    /\ SecondRunOtherObservability
    /\ project.includeObservability
    /\ ~snap.cfg.includeObservability
    /\ ReadmeMd \in touched


(***************************************************************************)
(* C24: how the agent guide is generated                                   *)
(***************************************************************************)
\* The positions of the log where getAgentsTemplate was called.
AgentGuideRenders ==
    { i \in 1..Len(log) : log[i] = Event("render", <<"getAgentsTemplate">>, "ok") }

\* The positions of the log where a write of p was entered.
WritesOf(p) ==
    { i \in 1..Len(log) : log[i].op = "writeFileSync" /\ log[i].arg = p }

\* C24 as stated: the agent guide is generated once, before either of the
\* two writes, and nothing is generated between the write of AGENTS.md and
\* the write of CLAUDE.md.
C24_AgentGuideGeneratedOnce ==
    \A j \in WritesOf(ClaudeMd) :
        /\ Cardinality(AgentGuideRenders) = 1
        /\ \A r \in AgentGuideRenders : \A i \in WritesOf(AgentsMd) : r < i
        /\ \A i \in WritesOf(AgentsMd) : \A k \in (i + 1)..(j - 1) : log[k].op # "render"

\* C24 amended: each of the two writes is of the result of its own call of
\* getAgentsTemplate with the collected project type, evaluated right before
\* it, so that the second call comes after the write of AGENTS.md; the two
\* calls return the same text, and once the run has written both files they
\* hold the same content.
C24_AgentGuideGeneratedPerWrite ==
    /\ \A j \in WritesOf(AgentsMd) \cup WritesOf(ClaudeMd) :
          j > 1 /\ (j - 1) \in AgentGuideRenders
    /\ \A j \in WritesOf(ClaudeMd) :
          /\ Cardinality(AgentGuideRenders) = 2
          /\ \E i \in WritesOf(AgentsMd) : i + 1 \in AgentGuideRenders /\ j = i + 2
    /\ {AgentsMd, ClaudeMd} \subseteq touched => files[AgentsMd] = files[ClaudeMd]
    /\ Collected =>
          /\ writes(project)[1].text = writes(project)[2].text
          /\ writes(project)[1].call = "getAgentsTemplate"
          /\ writes(project)[2].call = "getAgentsTemplate"

C24_Witness ==
    /\ pc = "done"
    /\ Cardinality(AgentGuideRenders) = 2
    /\ \E i \in WritesOf(AgentsMd) : log[i + 2] = Event("writeFileSync", ClaudeMd, "ok")
    /\ files[AgentsMd] = files[ClaudeMd]
    /\ project.projectType = "frontend"


(***************************************************************************)
(* C25: a failed directory creation or file write                          *)
(***************************************************************************)
\* The positions of the log where a call threw.
Thrown == { i \in 1..Len(log) : log[i].why # "ok" }

\* The path given to the call the run is about to make.
PendingPath ==
    IF pc = "root" THEN Root
    ELSE IF pc = "dirs" THEN directories(project)[idx]
    ELSE writes(project)[idx].path

\* The step under way is one in which a call throws.
Throws == Len(log') > Len(log) /\ log'[Len(log')].why # "ok"

\* C25: when a mkdirSync or a writeFileSync throws, the step that throws
\* changes no directory and no file, the error it throws is the one of the
\* call on the pending path and it is printed at once, and the run is over:
\* the throwing call is the last call of the run and no later step of the
\* emission can be taken.
C25_FailureAbortsEmission ==
    /\ [](Thrown # {} =>
             /\ Thrown = {Len(log)}
             /\ log[Len(log)].op \in {"mkdirSync", "writeFileSync"}
             /\ pc = "failed"
             /\ out = <<"console.error">>
             /\ ~ENABLED (MkRoot \/ MkDir \/ WriteFile \/ Finish))
    /\ [][Throws =>
             /\ pc \in {"root", "dirs", "write"}
             /\ log'[Len(log')].arg = PendingPath
             /\ log'[Len(log')].op = IF pc = "write" THEN "writeFileSync" ELSE "mkdirSync"
             /\ UNCHANGED <<dirs, files, mtime, touched>>
             /\ pc' = "failed"
             /\ out' = Append(out, "console.error")]_vars

C25_Witness ==
    /\ pc = "failed"
    /\ log[Len(log)] = Event("writeFileSync", ManifestPath, "refused")
    /\ <<"scripts", "validate-structure.ts">> \in touched
    /\ ManifestPath \notin DOMAIN files
    /\ ReadmeMd \notin DOMAIN files
    /\ out = <<"console.error">>


(***************************************************************************)
(* C29: the prompt session comes before the emission                       *)
(***************************************************************************)
\* The five answers have been given.
AllAnswered == DOMAIN project = { Prompts[i] : i \in 1..Len(Prompts) }

\* C29: a step that makes a file-system call, or that changes a directory, a
\* file or a modification time, is taken with all five answers collected;
\* once they are collected the config does not change; and while the prompt
\* session is under way, and after it was cancelled at any prompt, the run
\* has made no file-system call and has created or written nothing.
C29_NothingBeforeAllAnswers ==
    /\ [][/\ (dirs' # dirs \/ files' # files \/ mtime' # mtime \/ log' # log) =>
                /\ AllAnswered
                /\ pc \in {"root", "dirs", "write"}
          /\ Collected => project' = project]_vars
    /\ [](pc \in {"prompt", "cancelled"} =>
             /\ ~AllAnswered
             /\ log = <<>>
             /\ touched = {})
    /\ [](Collected => AllAnswered)

\* The first directory creation of a run whose target did not exist.
C29_Witness ==
    /\ pc = "dirs" /\ idx = 1
    /\ log = << Event("mkdirSync", Root, "ok") >>
    /\ dirs = {Root}
    /\ AllAnswered
    /\ ~project.includeCI


(***************************************************************************)
(* C30: directories come before the files written into them                *)
(***************************************************************************)
\* The call at position j of the log was preceded in the run by a mkdirSync
\* that made d a directory.
MadeBefore(d, j) ==
    \E i \in 1..(j - 1) :
        /\ log[i].op = "mkdirSync" /\ log[i].why = "ok"
        /\ d \in Prefixes(log[i].arg)

\* C30: every directory has its parent as a directory; when the run is at
\* its writes, the parent of every path still to be written is a directory;
\* and every write the run has made found the parent of its path either
\* created by an earlier mkdirSync of the same run or there since before
\* the run.
C30_ParentsBeforeWrites ==
    /\ \A d \in dirs : Prefixes(d) \subseteq dirs
    /\ pc = "write" =>
          \A i \in idx..Len(writes(project)) :
              /\ Parent(writes(project)[i].path) \in dirs
              /\ CanWrite(writes(project)[i].path)
    /\ \A j \in { i \in 1..Len(log) : log[i].op = "writeFileSync" } :
          /\ log[j].why = "ok"
          /\ Parent(log[j].arg) \in dirs
          /\ Parent(log[j].arg) \in touched => MadeBefore(Parent(log[j].arg), j)

C30_Witness ==
    /\ pc = "write"
    /\ log[Len(log)] = Event("writeFileSync", LinkCheckPath, "ok")
    /\ MadeBefore(<<".github">>, Len(log))
    /\ <<".github">> \in touched
    /\ ManifestPath \in touched /\ <<"scripts">> \in touched


(***************************************************************************)
(* C26: running again after a failed run                                   *)
(***************************************************************************)
\* What one run without failure leaves in an empty target: the directories
\* with their ancestors, and in each written path the text of the last write
\* to it.
SingleRunDirs(proj) ==
    {Root} \cup WithAncestors({ directories(proj)[i] : i \in 1..Len(directories(proj)) })

SingleRunFiles(proj) ==
    [p \in WrittenPaths(proj) |->
        LET last == CHOOSE i \in 1..Len(writes(proj)) :
                        /\ writes(proj)[i].path = p
                        /\ \A k \in (i + 1)..Len(writes(proj)) : writes(proj)[k].path # p
        IN  writes(proj)[last].text]

\* The run under way is the one after a first run on an empty target that
\* failed.
Retrying == runs = 2 /\ pc \in {"root", "dirs", "write", "finish", "done"}

\* C26: a run with the same config after a first run that failed at any of
\* its calls never meets a path it cannot create (no mkdirSync of it throws
\* on a directory that is there, no writeFileSync on a file that is there),
\* completes, and leaves the directories and the file contents that one run
\* without failure leaves in an empty target; what the run that completes
\* at once leaves is the same.
C26_RetryCompletesToSameState ==
    /\ Retrying =>
          /\ ~ENABLED ThrowCannot
          /\ pc # "done" => ENABLED (MkRoot \/ MkDir \/ WriteFile \/ Finish)
    /\ pc = "done" =>
          /\ dirs = SingleRunDirs(project)
          /\ files = SingleRunFiles(project)
          /\ exit = <<0>>

\* The first run was refused the write of scripts/package.json; the second
\* run has completed, having found the directories and the earlier files in
\* place.
C26_Witness ==
    /\ runs = 2 /\ pc = "done"
    /\ ~startedEmpty
    /\ ManifestPath \in touched
    /\ <<"scripts">> \notin touched
    /\ project.includeCI /\ project.projectType = "fullstack"


(***************************************************************************)
(* C28: what the emitter leaves alone                                      *)
(***************************************************************************)
\* The files a run writes for some config and not for every config.
OptionalFiles ==
    { FrontendMd, ManifestPath, WorkflowPath, LinkCheckPath,
      <<"scripts", "validate-structure.ts">>, <<"scripts", "validate-structure.js">> }

\* The optional files the config has the run write.
SelectedFiles(proj) ==
    (IF proj.projectType \in {"fullstack", "frontend"} THEN {FrontendMd} ELSE {})
    \cup (IF proj.validationLanguage = "typescript"
          THEN {ManifestPath, <<"scripts", "validate-structure.ts">>}
          ELSE {<<"scripts", "validate-structure.js">>})
    \cup (IF proj.includeCI THEN {WorkflowPath, LinkCheckPath} ELSE {})

\* C28: no step removes a directory or a file; a step that creates a
\* directory, or creates a file or changes its content or modification
\* time, does so at a path of the plan of the current config, which for the
\* files is a fixed document or an optional file the config selects; the
\* user's file outside the plan keeps its content; and after a second run
\* the optional files its config does not select, left by the first run,
\* are untouched by it.
C28_OnlyPlannedPathsChange ==
    /\ [][/\ dirs \subseteq dirs'
          /\ DOMAIN files \subseteq DOMAIN files'
          /\ \A d \in dirs' \ dirs :
                Collected /\ d \in EmissionPaths(project) \ WrittenPaths(project)
          /\ \A p \in DOMAIN files' :
                (p \notin DOMAIN files \/ files'[p] # files[p] \/ mtime'[p] # mtime[p]) =>
                    /\ Collected
                    /\ p \in FixedDocs \cup SelectedFiles(project)
                    /\ p \in touched']_vars
    /\ [](/\ NotesPath \in DOMAIN files /\ files[NotesPath] = UserText
          /\ NotesPath \notin touched
          /\ <<"notes">> \in dirs)
    /\ [](runs = 2 /\ Collected =>
             touched \cap (OptionalFiles \ SelectedFiles(project)) = {})

\* A fullstack, TypeScript run with CI and then a backend, JavaScript run
\* without CI: the files of the first run alone are there as it wrote them.
C28_Witness ==
    /\ runs = 2 /\ pc = "done"
    /\ project.projectType = "backend"
    /\ project.validationLanguage = "javascript"
    /\ ~project.includeCI
    /\ {FrontendMd, ManifestPath, WorkflowPath} \subseteq DOMAIN files
    /\ files[FrontendMd] = getFrontendTemplate
    /\ files[ManifestPath] = validationPackageJsonText
    /\ files[WorkflowPath] = getGithubWorkflowTemplate("typescript")
    /\ LinkCheckPath \in DOMAIN files
    /\ <<"scripts", "validate-structure.ts">> \in DOMAIN files
    /\ files[NotesPath] = UserText
    /\ files[ReadmeMd] = getReadmeTemplate("backend", "javascript")


(***************************************************************************)
(* C21 to C23: the validator on documents the user has changed             *)
(***************************************************************************)
DesignDocsDir == <<"docs", "design-docs">>

\* The documents of docs/design-docs other than index.md and template.md.
DesignDocuments ==
    { name \in { EntryNames[i] : i \in 1..Len(EntryNames) } :
        /\ name \notin {"index.md", "template.md"}
        /\ Append(DesignDocsDir, name) \in DOMAIN files }

\* The warnings of the last validator run with the message.
WarningsSaying(msg) == { k \in 1..Len(v.warnings) : v.warnings[k].msg = msg }

\* C21: when docs/design-docs exists, the validator warns "No design
\* documents found" exactly when the directory holds no document other
\* than index.md and template.md, whether or not those two are there.
C21_NoDesignDocsWarnedButForPlaceholders ==
    v.ran # "" /\ DesignDocsDir \in dirs =>
        (WarningsSaying("No design documents found in docs/design-docs/") # {}
            <=> DesignDocuments = {})

\* Whether the hole ends with a line break.
EndsInNewline(hole) == hole \in UserLinkLines \cup {MailtoLinkLine, PlainLine, FrontendLine}

\* Whether the text ends with a line break: the agent guide as emitted does,
\* and a text with lines written at its end does when the last of them does.
EndsWithNewline(text) ==
    IF text.tmpl = "getAgentsTemplate" /\ Len(text.holes) = 1 THEN TRUE
    ELSE IF text.holes = <<>> THEN FALSE
    ELSE EndsInNewline(text.holes[Len(text.holes)])

\* The number of lines of the text: its line breaks, and one more for a last
\* line without a line break.
ActualLines(text) == splitLength(text) - (IF EndsWithNewline(text) THEN 1 ELSE 0)

SizeMessage == "AGENTS.md is ${lineCount} lines (recommended: ~100 lines). Consider moving details to docs/"

\* C22: when AGENTS.md exists, the validator records the size warning
\* exactly when the file has more than 150 lines, the warning names the
\* number of lines of the file, and no error is about the size.
C22_SizeWarningIffOver150Lines ==
    v.ran # "" /\ AgentsMd \in DOMAIN files =>
        /\ WarningsSaying(SizeMessage) # {} <=> ActualLines(files[AgentsMd]) > 150
        /\ \A k \in WarningsSaying(SizeMessage) :
              v.warnings[k].n = ActualLines(files[AgentsMd])
        /\ \A k \in 1..Len(v.errors) : v.errors[k].msg # SizeMessage

\* The link path starts with a URL scheme, for the first segments that occur.
HasUrlScheme(link) == link[1] \in {"http:", "https:", "mailto:team@example.com"}

\* C23: a link of AGENTS.md is checked for existence exactly when its path
\* does not start with a URL scheme: a broken-link warning names the path
\* exactly when the path has no scheme and resolves to nothing from the
\* project root.
C23_CheckedIffNoUrlScheme ==
    v.ran # "" /\ AgentsMd \in DOMAIN files =>
        \A i \in 1..Len(LinksOf(files[AgentsMd])) :
            LET link == LinksOf(files[AgentsMd])[i] IN
                (\E k \in 1..Len(v.warnings) :
                     v.warnings[k] = Finding("Broken link in AGENTS.md: ", link, 0))
                <=> (~HasUrlScheme(link) /\ ~existsSyncLink(Root, link))


(***************************************************************************)
(* C27: what a validator run prints                                        *)
(***************************************************************************)
\* The positions of what the last validator run printed that are of the
\* kind.
PrintedAs(kind) == { i \in 1..Len(v.out) : v.out[i].kind = kind }

PassedBanner == "All validation checks passed!"

\* C27 as stated: every validator run prints an errors group and a warnings
\* group, each with its count, and ends with a banner: the success banner
\* when the error list is empty, a failure banner when it is not.
C27_TwoGroupsAndMatchingBanner ==
    v.ran # "" =>
        /\ \E i \in PrintedAs("Errors (${n}):") : v.out[i].f.n = Len(v.errors)
        /\ \E i \in PrintedAs("Warnings (${n}):") : v.out[i].f.n = Len(v.warnings)
        /\ v.errors = <<>> => PrintedAs(PassedBanner) # {}
        /\ v.errors # <<>> =>
              \E i \in 1..Len(v.out) :
                  v.out[i].kind \notin {"Validating project structure...", "rule",
                                        "Errors (${n}):", "Warnings (${n}):",
                                        "  - ${error}", "  - ${warning}", PassedBanner}

\* C27 amended: a validator run prints its opening line and, between two
\* rules of 60 "=", either the success banner alone, when it has neither
\* errors nor warnings, or else the groups that are not empty: the errors
\* under "Errors (n):" with their number, then the warnings under
\* "Warnings (n):" with theirs, one line per finding in the order recorded.
\* A group without findings is not printed, there is no success banner when
\* there are warnings, and there is no failure banner.
C27_GroupsOfFindingsOrSuccessBanner ==
    v.ran # "" =>
        LET E == Len(v.errors)
            N == Len(v.warnings)
            eLines == IF E > 0 THEN E + 1 ELSE 0
            nLines == IF N > 0 THEN N + 1 ELSE 0
        IN  /\ v.out[1].kind = "Validating project structure..."
            /\ v.out[2] = Rule /\ v.out[Len(v.out)] = Rule
            /\ PrintedAs("rule") = {2, Len(v.out)}
            /\ IF E = 0 /\ N = 0
               THEN /\ Len(v.out) = 4
                    /\ v.out[3].kind = PassedBanner
               ELSE /\ Len(v.out) = 3 + eLines + nLines
                    /\ PrintedAs(PassedBanner) = {}
                    /\ PrintedAs("Errors (${n}):") = IF E > 0 THEN {3} ELSE {}
                    /\ E > 0 => v.out[3].f.n = E
                    /\ \A i \in 1..E : v.out[3 + i] = Printed("  - ${error}", v.errors[i])
                    /\ PrintedAs("Warnings (${n}):") = IF N > 0 THEN {3 + eLines} ELSE {}
                    /\ N > 0 => v.out[3 + eLines].f.n = N
                    /\ \A i \in 1..N :
                          v.out[3 + eLines + i] = Printed("  - ${warning}", v.warnings[i])

\* A run with two warnings and no error: it exits 0 and prints the warnings
\* group alone, without the success banner.
C27_Witness ==
    /\ v.ran = "javascript"
    /\ v.errors = <<>> /\ Len(v.warnings) = 2
    /\ v.exit = <<0>>
    /\ Len(v.out) = 6
    /\ v.out[3] = Printed("Warnings (${n}):", Count(2))
    /\ PrintedAs(PassedBanner) = {}

====
